---- MODULE Spec2Model ----
(***************************************************************************)
(* A model of the appointment Registry of HospitalRegistry                 *)
(* (src/Registry.h) together with the person records it owns               *)
(* (src/AbstractPerson.h, src/Patient.h), the Appointment and              *)
(* HospitalVisitCard value objects and the date helpers (src/helpers.h).   *)
(*                                                                         *)
(* The Registry is a class with public methods taking objects by           *)
(* reference.  A caller may pass the registry's own Doctor record (a       *)
(* reference obtained from getDoctors/findDoctorByName, as Menu does) or a *)
(* Doctor object of its own (a copy, as Menu::cancelAppointmentMenu makes, *)
(* or a freshly constructed one).  Exceptions (std::runtime_error) leave   *)
(* the method at the throw; everything assigned before the throw stays.    *)
(*                                                                         *)
(* Spec is the Registry called by such a client.  SpecSlots, SpecCards and *)
(* SpecSeed are clients that make part of these calls on more inputs.      *)
(* SpecMenu is the program itself: main() constructs the Registry and      *)
(* Menu::start drives it (src/Menu.h); SpecFill is the program with a user *)
(* who books one doctor's day full.                                        *)
(***************************************************************************)
EXTENDS Integers, Sequences, FiniteSets, TLC

VARIABLES
    now,            \* the calendar day the clock shows: <<year, month, day>>
    seeded,         \* how many times generateDefaultAppointments has run
    doctors,        \* Registry::_doctors
    patients,       \* Registry::_patients
    appointments,   \* Registry::_appointments
    visitCards,     \* Registry::_visitCards
    heldDoctor,     \* a Doctor object owned by the caller: <<>> or <<Doctor>>
    heldPatient,    \* the Patient object the caller got from addPatient: <<>> or <<Patient>>
    last,           \* the call that ended last: operation, arguments, outcome
    nOps,           \* number of calls made so far
    route           \* where the caller stands: "client", or a position of Menu

vars == <<now, seeded, doctors, patients, appointments, visitCards,
          heldDoctor, heldPatient, last, nOps, route>>

registry == <<doctors, patients, appointments, visitCards>>

-----------------------------------------------------------------------------
(* Bounds of the model *)

\* calls a client makes after construction (the seeding call included)
MaxOps == 4

-----------------------------------------------------------------------------
(* Program constants *)

WORK_START_HOUR == 8
WORK_END_HOUR == 18
APPOINTMENT_DURATION == 30

\* the outcome of a lookup that throws std::runtime_error
NotFound == 0

-----------------------------------------------------------------------------
(* Person records: AbstractPerson, Patient, Doctor *)

\* Doctor(name): AbstractPerson(name), dateOfBirth default-constructed
Doctor(name) ==
    [name |-> name, dateOfBirth |-> "", appointments |-> <<>>]

\* Patient(name, dateOfBirth)
Patient(name, dateOfBirth) ==
    [name |-> name, dateOfBirth |-> dateOfBirth, appointments |-> <<>>]

\* an entry of a person's list: pair<string, pair<string, string>>
Entry(dateTime, patientName, doctorName) ==
    <<dateTime, <<patientName, doctorName>>>>

\* a variant of addAppointment that inserts at the front of the list
addAppointment_front(person, dateTime, patientName, doctorName) ==
    [person EXCEPT !.appointments =
        <<Entry(dateTime, patientName, doctorName)>> \o @]

\* AbstractPerson::addAppointment: push_back of the pair
addAppointment(person, dateTime, patientName, doctorName) ==
    [person EXCEPT !.appointments =
        Append(@, Entry(dateTime, patientName, doctorName))]

\* the predicate of the remove_if in AbstractPerson::deleteAppointment
EntryMatches(appointment, dateTime, patientName, doctorName) ==
    /\ appointment[1] = dateTime
    /\ appointment[2][1] = patientName
    /\ appointment[2][2] = doctorName

\* AbstractPerson::deleteAppointment: erase(remove_if(...), end())
deleteAppointment(person, dateTime, patientName, doctorName) ==
    [person EXCEPT !.appointments =
        SelectSeq(@, LAMBDA e : ~EntryMatches(e, dateTime, patientName, doctorName))]

\* Doctor::isAvailable: linear scan for an entry with that exact dateTime
RECURSIVE isAvailableFrom(_, _, _)
isAvailableFrom(apps, k, dateTime) ==
    IF k > Len(apps) THEN TRUE
    ELSE IF apps[k][1] = dateTime THEN FALSE
    ELSE isAvailableFrom(apps, k + 1, dateTime)

\* a variant of isAvailable whose scan starts at the second entry
isAvailable_skipFirst(doctor, dateTime) ==
    isAvailableFrom(doctor.appointments, 2, dateTime)

isAvailable(doctor, dateTime) ==
    isAvailableFrom(doctor.appointments, 1, dateTime)

\* a variant of Appointment that keeps the two records without their
\* appointment lists
Appointment_noLists(dateTime, doctor, patient) ==
    [dateTime |-> dateTime,
     doctor |-> [doctor EXCEPT !.appointments = <<>>],
     patient |-> [patient EXCEPT !.appointments = <<>>]]

\* Appointment(dateTime, doctor, patient): copies of both records
Appointment(dateTime, doctor, patient) ==
    [dateTime |-> dateTime, doctor |-> doctor, patient |-> patient]

\* HospitalVisitCard(doc, pat, date, diag): copies of both records
HospitalVisitCard(doc, pat, date, diag) ==
    [doctor |-> doc, patient |-> pat, dateTime |-> date, diagnosis |-> diag]

-----------------------------------------------------------------------------
(* Dates: helpers.h *)

IsLeap(y) == (y % 4 = 0 /\ y % 100 # 0) \/ y % 400 = 0

DaysInMonth(y, m) ==
    IF m = 2 THEN (IF IsLeap(y) THEN 29 ELSE 28)
    ELSE IF m \in {4, 6, 9, 11} THEN 30 ELSE 31

\* "%02d"
Pad2(n) == IF n < 10 THEN "0" \o ToString(n) ELSE ToString(n)

\* put_time(..., "%Y-%m-%d") for a four-digit year
FormatDate(d) == ToString(d[1]) \o "-" \o Pad2(d[2]) \o "-" \o Pad2(d[3])

\* tm_mday += 1; mktime() normalises the day, month and year
NextDay(d) ==
    IF d[3] < DaysInMonth(d[1], d[2]) THEN <<d[1], d[2], d[3] + 1>>
    ELSE IF d[2] < 12 THEN <<d[1], d[2] + 1, 1>>
    ELSE <<d[1] + 1, 1, 1>>

getTodayDate == FormatDate(now)

getTomorrowDate == FormatDate(NextDay(now))

-----------------------------------------------------------------------------
(* Lookups: Registry::patientExists, findDoctorByName, findPatientByName *)

\* the for loop of the three lookups: the first index from k on whose
\* record has that name, NotFound when the loop runs off the end
RECURSIVE ScanByName(_, _, _)
ScanByName(people, k, name) ==
    IF k > Len(people) THEN NotFound
    ELSE IF people[k].name = name THEN k
    ELSE ScanByName(people, k + 1, name)

RECURSIVE patientExistsFrom(_, _, _)
patientExistsFrom(ps, k, name) ==
    IF k > Len(ps) THEN FALSE
    ELSE IF ps[k].name = name THEN TRUE
    ELSE patientExistsFrom(ps, k + 1, name)

\* a variant of patientExists whose scan starts at the second patient
patientExists_skipFirst(name) == patientExistsFrom(patients, 2, name)

patientExists(name) == patientExistsFrom(patients, 1, name)

\* the index of the record the returned reference names, or NotFound (throw)
findDoctorByName(name) == ScanByName(doctors, 1, name)

\* a variant of findPatientByName whose scan starts at the second patient
findPatientByName_skipFirst(name) == ScanByName(patients, 2, name)

findPatientByName(name) == ScanByName(patients, 1, name)

-----------------------------------------------------------------------------
(* Slot generation: Registry::getAvailableTimes, getAvailableTimesForDoctor *)

\* snprintf(buffer, sizeof(buffer), "%02d:%02d", hour, minute)
FormatTime(hour, minute) == Pad2(hour) \o ":" \o Pad2(minute)

\* a variant of the minute loop that steps by a quarter of an hour
RECURSIVE MinuteLoop_quarter(_, _, _, _)
MinuteLoop_quarter(doctor, date, hour, minute) ==
    IF minute >= 60 THEN <<>>
    ELSE LET dateTime == date \o " " \o FormatTime(hour, minute)
         IN  (IF isAvailable(doctor, dateTime)
              THEN <<  <<dateTime, doctor.name>>  >>
              ELSE <<>>)
             \o MinuteLoop_quarter(doctor, date, hour, minute + 15)

\* for (minute = 0; minute < 60; minute += APPOINTMENT_DURATION): the pairs
\* pushed back from this minute on
RECURSIVE MinuteLoop(_, _, _, _)
MinuteLoop(doctor, date, hour, minute) ==
    IF minute >= 60 THEN <<>>
    ELSE LET dateTime == date \o " " \o FormatTime(hour, minute)
         IN  (IF isAvailable(doctor, dateTime)
              THEN <<  <<dateTime, doctor.name>>  >>
              ELSE <<>>)
             \o MinuteLoop(doctor, date, hour, minute + APPOINTMENT_DURATION)

\* a variant of the hour loop that runs while hour <= WORK_END_HOUR
RECURSIVE HourLoop_inclusive(_, _, _)
HourLoop_inclusive(doctor, date, hour) ==
    IF hour > WORK_END_HOUR THEN <<>>
    ELSE MinuteLoop(doctor, date, hour, 0) \o HourLoop_inclusive(doctor, date, hour + 1)

\* for (hour = WORK_START_HOUR; hour < WORK_END_HOUR; ++hour)
RECURSIVE HourLoop(_, _, _)
HourLoop(doctor, date, hour) ==
    IF hour >= WORK_END_HOUR THEN <<>>
    ELSE MinuteLoop(doctor, date, hour, 0) \o HourLoop(doctor, date, hour + 1)

\* for (Doctor &doctor : _doctors), entered at position k
RECURSIVE DoctorLoop(_, _, _)
DoctorLoop(ds, date, k) ==
    IF k > Len(ds) THEN <<>>
    ELSE HourLoop(ds[k], date, WORK_START_HOUR) \o DoctorLoop(ds, date, k + 1)

getAvailableTimes(date) == DoctorLoop(doctors, date, 1)

\* a variant of getAvailableTimesForDoctor whose test looks at the first
\* component of the pair
getAvailableTimesForDoctor_first(date, doctorName) ==
    SelectSeq(getAvailableTimes(date), LAMBDA timeDoctorPair : timeDoctorPair[1] = doctorName)

\* the pairs of allAvailableTimes whose second component is doctorName
getAvailableTimesForDoctor(date, doctorName) ==
    SelectSeq(getAvailableTimes(date), LAMBDA timeDoctorPair : timeDoctorPair[2] = doctorName)

\* a variant of getAvailableDoctors that lists every doctor of the registry
getAvailableDoctors_all(date) ==
    [i \in 1..Len(doctors) |-> doctors[i].name]

\* Registry::getAvailableDoctors: the names of availableTimes go into a set,
\* then _doctors is walked and the names found in the set are pushed back
getAvailableDoctors(date) ==
    LET availableTimes == getAvailableTimes(date)
        uniqueDoctors == {availableTimes[k][2] : k \in 1..Len(availableTimes)}
        available == SelectSeq(doctors, LAMBDA doctor : doctor.name \in uniqueDoctors)
    IN  [i \in 1..Len(available) |-> available[i].name]

-----------------------------------------------------------------------------
(* Visit cards of a patient: Registry::getVisitCardsForPatient *)

\* a variant of getVisitCardsForPatient that compares whole patient records
getVisitCardsForPatient_byRecord(patient) ==
    SelectSeq(visitCards, LAMBDA visitCard : visitCard.patient = patient)

\* visitCard.getPatientName() == patient.getName()
getVisitCardsForPatient(patient) ==
    SelectSeq(visitCards, LAMBDA visitCard : visitCard.patient.name = patient.name)

-----------------------------------------------------------------------------
(* Construction: the member initialisers of Registry *)

InitialDoctors ==
    << Doctor("John Smith"), Doctor("Emily Johnson"), Doctor("David Brown"),
       Doctor("Sarah Lee"), Doctor("Michael Wilson"), Doctor("Alexandra Garcia"),
       Doctor("Matthew Taylor"), Doctor("Olivia Martinez") >>

InitialPatients ==
    << Patient("Alice Smith", "23.08.1997"), Patient("Bob Johnson", "22.06.2000"),
       Patient("Charlie Brown", "12.01.1998"), Patient("Diana Davis", "03.03.2003"),
       Patient("Eva Martinez", "02.08.2008"), Patient("Frank Lopez", "14.02.2012"),
       Patient("Grace Lee", "14.08.2012"), Patient("Henry Jackson", "22.08.2006") >>

\* the days the clock may show when the process starts
Clock == { <<2025, 1, 10>>, <<2024, 2, 29>> }

Init ==
    /\ now \in Clock
    /\ seeded = 0
    /\ doctors = InitialDoctors
    /\ patients = InitialPatients
    /\ appointments = <<>>
    /\ visitCards = <<>>
    /\ heldDoctor = <<>>
    /\ heldPatient = <<>>
    /\ last = [op |-> "Registry", args |-> <<>>, result |-> "ok", ret |-> <<>>]
    /\ nOps = 0
    /\ route = "client"

-----------------------------------------------------------------------------
(* What a call leaves behind for its caller *)

\* the call returns (or throws): its outcome is recorded, the call is counted
Returned(op, args, result, ret) ==
    /\ last' = [op |-> op, args |-> args, result |-> result, ret |-> ret]
    /\ nOps' = nOps + 1

\* a variant of Deref that resolves the caller's object to the registry's
\* record of the same name when there is one
Deref_registryByName(dref) ==
    IF dref.kind = "registry" THEN doctors[dref.idx]
    ELSE IF findDoctorByName(heldDoctor[1].name) = NotFound THEN heldDoctor[1]
    ELSE doctors[findDoctorByName(heldDoctor[1].name)]

\* a Doctor& argument: the registry's own record or the caller's object
Deref(dref) ==
    IF dref.kind = "registry" THEN doctors[dref.idx] ELSE heldDoctor[1]

\* writing through a Doctor& argument
StoreDoctor(dref, doctor) ==
    IF dref.kind = "registry"
    THEN /\ doctors' = [doctors EXCEPT ![dref.idx] = doctor]
         /\ UNCHANGED heldDoctor
    ELSE /\ heldDoctor' = <<doctor>>
         /\ UNCHANGED doctors

-----------------------------------------------------------------------------
(* Seeding: Registry::scheduleDefaulteAppointmentsForDate and              *)
(* Registry::generateDefaultAppointments                                   *)

defaultTime ==
    <<" 17:00", " 12:30", " 08:30", " 14:00", " 13:30", " 09:00", " 15:00", " 10:00">>

\* a variant of the loop body that leaves the patient's own list alone
SeedBody_noPatientEntry(st, date, defaultTimeIndex, i, j) ==
    LET dateTime == date \o defaultTime[defaultTimeIndex + 1]
        doctor == addAppointment(st.doctors[i + 1], dateTime,
                                 st.patients[j + 1].name, st.doctors[i + 1].name)
    IN  [doctors |-> [st.doctors EXCEPT ![i + 1] = doctor],
         patients |-> st.patients,
         appointments |-> Append(st.appointments,
                                 Appointment(dateTime, doctor, st.patients[j + 1]))]

\* a variant of the loop body that skips the pair when the doctor already
\* has an entry at that dateTime
SeedBody_checked(st, date, defaultTimeIndex, i, j) ==
    LET dateTime == date \o defaultTime[defaultTimeIndex + 1]
        doctor == addAppointment(st.doctors[i + 1], dateTime,
                                 st.patients[j + 1].name, st.doctors[i + 1].name)
        patient == addAppointment(st.patients[j + 1], dateTime,
                                  st.patients[j + 1].name, st.doctors[i + 1].name)
    IN  IF isAvailable(st.doctors[i + 1], dateTime)
        THEN [doctors |-> [st.doctors EXCEPT ![i + 1] = doctor],
              patients |-> [st.patients EXCEPT ![j + 1] = patient],
              appointments |-> Append(st.appointments, Appointment(dateTime, doctor, patient))]
        ELSE st

\* the body of the inner loop for doctor i and patient j (0-based, as in the
\* code) on the collections st = [doctors, patients, appointments]
SeedBody(st, date, defaultTimeIndex, i, j) ==
    LET dateTime == date \o defaultTime[defaultTimeIndex + 1]
        doctor == addAppointment(st.doctors[i + 1], dateTime,
                                 st.patients[j + 1].name, st.doctors[i + 1].name)
        patient == addAppointment(st.patients[j + 1], dateTime,
                                  st.patients[j + 1].name, st.doctors[i + 1].name)
    IN  [doctors |-> [st.doctors EXCEPT ![i + 1] = doctor],
         patients |-> [st.patients EXCEPT ![j + 1] = patient],
         appointments |-> Append(st.appointments, Appointment(dateTime, doctor, patient))]

\* a variant of the index update that steps back by two
PrevTimeIndex_twoBack(defaultTimeIndex) ==
    (defaultTimeIndex - 2 + Len(defaultTime)) % Len(defaultTime)

\* a variant of the index update that steps forward through defaultTime
PrevTimeIndex_forward(defaultTimeIndex) ==
    (defaultTimeIndex + 1) % Len(defaultTime)

\* defaultTimeIndex = (defaultTimeIndex - 1 + defaultTime.size()) % defaultTime.size()
\* (the index stays in 0..7, so the unsigned arithmetic never wraps past size)
PrevTimeIndex(defaultTimeIndex) ==
    (defaultTimeIndex - 1 + Len(defaultTime)) % Len(defaultTime)

\* the two nested for loops, entered at (i, j)
RECURSIVE SeedLoop(_, _, _, _, _, _, _, _)
SeedLoop(st, date, defaultTimeIndex, i, j, doctorCount, patientCount, startIndex) ==
    IF i >= doctorCount THEN st
    ELSE IF j >= patientCount
    THEN SeedLoop(st, date, defaultTimeIndex, i + 1, startIndex,
                  doctorCount, patientCount, startIndex)
    ELSE SeedLoop(SeedBody(st, date, defaultTimeIndex, i, j), date,
                  PrevTimeIndex(defaultTimeIndex), i, j + 1,
                  doctorCount, patientCount, startIndex)

scheduleDefaulteAppointmentsForDate(st, date, defaultTimeIndex, doctorCount, patientCount, startIndex) ==
    SeedLoop(st, date, defaultTimeIndex, startIndex, startIndex,
             doctorCount, patientCount, startIndex)

\* the collections after generateDefaultAppointments has run on st
SeedResult(st) ==
    LET first == scheduleDefaulteAppointmentsForDate(st, getTodayDate, 0,
                     Len(st.doctors) \div 2, Len(st.patients) \div 2, 0)
    IN  scheduleDefaulteAppointmentsForDate(first, getTomorrowDate, 7,
                     Len(first.doctors), Len(first.patients), 4)

generateDefaultAppointments ==
    /\ LET st == SeedResult([doctors |-> doctors, patients |-> patients,
                             appointments |-> appointments])
       IN  /\ doctors' = st.doctors
           /\ patients' = st.patients
           /\ appointments' = st.appointments
    /\ seeded' = seeded + 1
    /\ Returned("generateDefaultAppointments", <<>>, "ok", <<>>)
    /\ UNCHANGED <<now, visitCards, heldDoctor, heldPatient>>

-----------------------------------------------------------------------------
(* Booking: Registry::scheduleAppointment *)

\* the branch taken when the doctor is available: the three appends, made
\* through the Doctor& at the time they run
appendBooking(dateTime, dref, patient) ==
    LET doctor == Deref(dref)
        booked == addAppointment(doctor, dateTime, patient.name, doctor.name)
        p == findPatientByName(patient.name)
    IN  /\ StoreDoctor(dref, booked)
        /\ IF p = NotFound
           THEN \* findPatientByName throws: "Patient not found."
                /\ UNCHANGED <<patients, appointments>>
                /\ Returned("scheduleAppointment", <<dateTime, dref, patient>>,
                            "NotFound", <<>>)
           ELSE LET registeredPatient ==
                        addAppointment(patients[p], dateTime, patient.name, booked.name)
                IN  /\ patients' = [patients EXCEPT ![p] = registeredPatient]
                    /\ appointments' =
                           Append(appointments,
                                  Appointment(dateTime, booked, registeredPatient))
                    /\ Returned("scheduleAppointment", <<dateTime, dref, patient>>,
                                "scheduled", <<>>)

\* the else branch: "Sorry, Dr. ... is not available at ..."
refuseBooking(dateTime, dref, patient) ==
    /\ UNCHANGED <<doctors, heldDoctor, patients, appointments>>
    /\ Returned("scheduleAppointment", <<dateTime, dref, patient>>, "unavailable", <<>>)

\* a variant of scheduleAppointment without the test of isAvailable
scheduleAppointment_unchecked(dateTime, dref, patient) ==
    /\ appendBooking(dateTime, dref, patient)
    /\ UNCHANGED <<now, seeded, visitCards, heldPatient>>

scheduleAppointment(dateTime, dref, patient) ==
    /\ IF isAvailable(Deref(dref), dateTime)
       THEN appendBooking(dateTime, dref, patient)
       ELSE refuseBooking(dateTime, dref, patient)
    /\ UNCHANGED <<now, seeded, visitCards, heldPatient>>

-----------------------------------------------------------------------------
(* Cancellation: Registry::cancelAppointment *)

\* the predicate of the remove_if over _appointments
AppointmentMatches(app, dateTime, patientName, doctorName) ==
    /\ app.dateTime = dateTime
    /\ app.patient.name = patientName
    /\ app.doctor.name = doctorName

\* _appointments.erase(std::remove_if(...), _appointments.end())
EraseAppointments(apps, dateTime, patientName, doctorName) ==
    SelectSeq(apps, LAMBDA a : ~AppointmentMatches(a, dateTime, patientName, doctorName))

cancelAppointment(dateTime, patientName, doctorName) ==
    /\ appointments' = EraseAppointments(appointments, dateTime, patientName, doctorName)
    /\ LET d == findDoctorByName(doctorName)
           p == findPatientByName(patientName)
       IN  IF d = NotFound
           THEN \* findDoctorByName throws: "Doctor not found."
                /\ UNCHANGED <<doctors, patients>>
                /\ Returned("cancelAppointment", <<dateTime, patientName, doctorName>>,
                            "NotFound", <<>>)
           ELSE /\ doctors' = [doctors EXCEPT ![d] =
                        deleteAppointment(@, dateTime, patientName, doctorName)]
                /\ IF p = NotFound
                   THEN \* findPatientByName throws: "Patient not found."
                        /\ UNCHANGED patients
                        /\ Returned("cancelAppointment",
                                    <<dateTime, patientName, doctorName>>, "NotFound", <<>>)
                   ELSE /\ patients' = [patients EXCEPT ![p] =
                                deleteAppointment(@, dateTime, patientName, doctorName)]
                        /\ Returned("cancelAppointment",
                                    <<dateTime, patientName, doctorName>>, "canceled", <<>>)
    /\ UNCHANGED <<now, seeded, visitCards, heldDoctor, heldPatient>>

-----------------------------------------------------------------------------
(* Registration: Registry::addPatient *)

\* a variant of addPatient that returns the new Patient without storing it
addPatient_noStore(name, age) ==
    /\ IF patientExists(name)
       THEN /\ heldPatient' = <<patients[findPatientByName(name)]>>
            /\ Returned("addPatient", <<name, age>>, "exists",
                        <<patients[findPatientByName(name)]>>)
       ELSE /\ heldPatient' = <<Patient(name, age)>>
            /\ Returned("addPatient", <<name, age>>, "added", <<Patient(name, age)>>)
    /\ UNCHANGED <<now, seeded, doctors, patients, appointments, visitCards, heldDoctor>>

addPatient(name, age) ==
    /\ IF patientExists(name)
       THEN \* "Patient ... already exists.": a copy of the record found
            /\ UNCHANGED patients
            /\ heldPatient' = <<patients[findPatientByName(name)]>>
            /\ Returned("addPatient", <<name, age>>, "exists",
                        <<patients[findPatientByName(name)]>>)
       ELSE /\ patients' = Append(patients, Patient(name, age))
            /\ heldPatient' = <<Patient(name, age)>>
            /\ Returned("addPatient", <<name, age>>, "added", <<Patient(name, age)>>)
    /\ UNCHANGED <<now, seeded, doctors, appointments, visitCards, heldDoctor>>

-----------------------------------------------------------------------------
(* Visit cards: Registry::addHospitalVisitCard *)

\* a variant of addHospitalVisitCard that stores the card only when the
\* global list holds an appointment (dateTime, patient, doctor)
addHospitalVisitCard_checked(doctor, patient, dateTime, diagnosis) ==
    /\ visitCards' =
           IF \E k \in 1..Len(appointments) :
                  AppointmentMatches(appointments[k], dateTime, patient.name, doctor.name)
           THEN Append(visitCards, HospitalVisitCard(doctor, patient, dateTime, diagnosis))
           ELSE visitCards
    /\ Returned("addHospitalVisitCard", <<doctor, patient, dateTime, diagnosis>>, "ok",
                <<HospitalVisitCard(doctor, patient, dateTime, diagnosis)>>)
    /\ UNCHANGED <<now, seeded, doctors, patients, appointments, heldDoctor, heldPatient>>

\* a variant of addHospitalVisitCard that puts the card in front
addHospitalVisitCard_front(doctor, patient, dateTime, diagnosis) ==
    /\ visitCards' = <<HospitalVisitCard(doctor, patient, dateTime, diagnosis)>> \o visitCards
    /\ Returned("addHospitalVisitCard", <<doctor, patient, dateTime, diagnosis>>, "ok",
                <<HospitalVisitCard(doctor, patient, dateTime, diagnosis)>>)
    /\ UNCHANGED <<now, seeded, doctors, patients, appointments, heldDoctor, heldPatient>>

addHospitalVisitCard(doctor, patient, dateTime, diagnosis) ==
    /\ visitCards' = Append(visitCards, HospitalVisitCard(doctor, patient, dateTime, diagnosis))
    /\ Returned("addHospitalVisitCard", <<doctor, patient, dateTime, diagnosis>>, "ok",
                <<HospitalVisitCard(doctor, patient, dateTime, diagnosis)>>)
    /\ UNCHANGED <<now, seeded, doctors, patients, appointments, heldDoctor, heldPatient>>

-----------------------------------------------------------------------------
(* The lookups called by a client *)

callPatientExists(name) ==
    /\ Returned("patientExists", <<name>>, "ok", <<patientExists(name)>>)
    /\ UNCHANGED <<now, seeded, registry, heldDoctor, heldPatient>>

callFindPatientByName(name) ==
    /\ LET p == findPatientByName(name) IN
       IF p = NotFound
       THEN Returned("findPatientByName", <<name>>, "NotFound", <<>>)
       ELSE Returned("findPatientByName", <<name>>, "ok", <<p>>)
    /\ UNCHANGED <<now, seeded, registry, heldDoctor, heldPatient>>

\* Doctor doctor = registry.findDoctorByName(doctorName): the caller keeps a copy
callFindDoctorByName(name) ==
    /\ LET d == findDoctorByName(name) IN
       IF d = NotFound
       THEN /\ Returned("findDoctorByName", <<name>>, "NotFound", <<>>)
            /\ UNCHANGED heldDoctor
       ELSE /\ Returned("findDoctorByName", <<name>>, "ok", <<d>>)
            /\ heldDoctor' = <<doctors[d]>>
    /\ UNCHANGED <<now, seeded, registry, heldPatient>>

\* a variant of getByIndex that counts positions from 1
getByIndex_oneBased(index, items) ==
    IF index >= 1 /\ index <= Len(items) THEN <<items[index]>> ELSE <<>>

\* Registry::getByIndex(index, items), index counted from 0: <<the element>>
\* when it returns, <<>> when it throws std::out_of_range("Invalid index.")
getByIndex(index, items) ==
    IF index >= 0 /\ index < Len(items) THEN <<items[index + 1]>> ELSE <<>>

\* the vectors of the registry that getByIndex is called on
ListOf(which) ==
    CASE which = "appointments" -> appointments
      [] which = "patients" -> patients
      [] which = "doctors" -> doctors

\* a call registry.getByIndex(index, items)
callGetByIndex(index, which) ==
    /\ LET item == getByIndex(index, ListOf(which)) IN
       IF item = <<>>
       THEN Returned("getByIndex", <<index, which>>, "OutOfRange", <<>>)
       ELSE Returned("getByIndex", <<index, which>>, "ok", item)
    /\ UNCHANGED <<now, seeded, registry, heldDoctor, heldPatient>>

\* Doctor doctor(name): the caller constructs a Doctor of its own
newDoctor(name) ==
    /\ heldDoctor' = <<Doctor(name)>>
    /\ Returned("Doctor", <<name>>, "ok", <<>>)
    /\ UNCHANGED <<now, seeded, registry, heldPatient>>

-----------------------------------------------------------------------------
(* The arguments a client passes *)

\* 17:00 is taken by the seeding for John Smith, 09:30 is a free slot,
\* 18:00 is outside the working hours
InputTimes == {"17:00", "09:30", "18:00"}

Dates == {getTodayDate, getTomorrowDate}

SeedSlot == getTodayDate \o " 17:00"

DateTimes == {getTodayDate \o " " \o tm : tm \in InputTimes}

RegisteredDoctorNames == {"John Smith"}
DoctorNames == RegisteredDoctorNames \cup {"Gregory House"}

PatientNames == {"Alice Smith", "Nina New", "Zed Unknown"}
NewPatientNames == {"Alice Smith", "Nina New"}
BirthDates == {"23.08.1997", "01.01.1990"}

\* Doctor& arguments: registry records by position, or the caller's object
DoctorRefs ==
    {[kind |-> "registry", idx |-> findDoctorByName(n)] : n \in RegisteredDoctorNames}
    \cup (IF heldDoctor = <<>> THEN {} ELSE {[kind |-> "held"]})

\* Patient& arguments: a registry record, the object addPatient returned, or
\* a Patient the caller constructed and never registered
PatientObjects ==
    {patients[1]}
    \cup {heldPatient[k] : k \in 1..Len(heldPatient)}
    \cup {Patient("Zed Unknown", "01.01.1990")}

\* a client makes a bounded number of calls and is no Menu
ClientCall == nOps < MaxOps /\ UNCHANGED route

Next ==
    \/ ClientCall /\ seeded = 0 /\ generateDefaultAppointments
    \/ ClientCall /\ seeded > 0
          /\ \E t \in DateTimes, dref \in DoctorRefs, patient \in PatientObjects :
                 scheduleAppointment(t, dref, patient)
    \/ ClientCall /\ seeded > 0
          /\ \E t \in DateTimes, pn \in PatientNames, dn \in DoctorNames :
                 cancelAppointment(t, pn, dn)
    \/ ClientCall /\ seeded > 0
          /\ \E n \in NewPatientNames, age \in BirthDates : addPatient(n, age)
    \/ ClientCall /\ seeded > 0
          /\ \E t \in {SeedSlot} : addHospitalVisitCard(doctors[1], patients[1], t, "flu")
    \/ ClientCall /\ seeded > 0 /\ \E n \in PatientNames : callPatientExists(n)
    \/ ClientCall /\ seeded > 0 /\ \E n \in PatientNames : callFindPatientByName(n)
    \/ ClientCall /\ seeded > 0 /\ \E n \in DoctorNames : callFindDoctorByName(n)
    \/ ClientCall /\ seeded > 0 /\ \E n \in DoctorNames : newDoctor(n)

Spec == Init /\ [][Next]_vars

-----------------------------------------------------------------------------
(* A fresh registry that is seeded, on any day of two years *)

\* the days the clock may show: every day of 2024 (a leap year) and 2025
SeedClock ==
    { <<y, m, d>> : y \in {2024, 2025}, m \in 1..12, d \in 1..31 } \cap
    { dt \in {2024, 2025} \X (1..12) \X (1..31) : dt[3] <= DaysInMonth(dt[1], dt[2]) }

SeedInit ==
    /\ now \in SeedClock
    /\ seeded = 0
    /\ doctors = InitialDoctors
    /\ patients = InitialPatients
    /\ appointments = <<>>
    /\ visitCards = <<>>
    /\ heldDoctor = <<>>
    /\ heldPatient = <<>>
    /\ last = [op |-> "Registry", args |-> <<>>, result |-> "ok", ret |-> <<>>]
    /\ nOps = 0
    /\ route = "client"

SeedNext == ClientCall /\ seeded = 0 /\ generateDefaultAppointments

SpecSeed == SeedInit /\ [][SeedNext]_vars

-----------------------------------------------------------------------------
(* A client that only books and cancels *)

SlotsNext ==
    \/ ClientCall /\ seeded = 0 /\ generateDefaultAppointments
    \/ ClientCall /\ seeded > 0
          /\ \E t \in DateTimes, dref \in DoctorRefs :
                 scheduleAppointment(t, dref, patients[1])
    \/ ClientCall /\ seeded > 0
          /\ \E t \in DateTimes : cancelAppointment(t, "Alice Smith", "John Smith")
    \/ ClientCall /\ seeded > 0 /\ newDoctor("John Smith")

SpecSlots == Init /\ [][SlotsNext]_vars

-----------------------------------------------------------------------------
(* A client that books with the registry's record, with a copy of it that  *)
(* it keeps, and with a Doctor it builds itself                            *)

\* calls made by this client
MaxCopyOps == 3

CopiesNext ==
    \/ ClientCall /\ seeded = 0 /\ generateDefaultAppointments
    \/ ClientCall /\ nOps < MaxCopyOps /\ seeded > 0
          /\ \E t \in DateTimes, dref \in DoctorRefs, j \in {1, 2} :
                 scheduleAppointment(t, dref, patients[j])
    \/ ClientCall /\ nOps < MaxCopyOps /\ seeded > 0 /\ callFindDoctorByName("John Smith")
    \/ ClientCall /\ nOps < MaxCopyOps /\ seeded > 0 /\ newDoctor("John Smith")

SpecCopies == Init /\ [][CopiesNext]_vars

-----------------------------------------------------------------------------
(* A client that books John Smith at dateTimes no menu would offer         *)

\* a date before every day the clock may show
PastDate == "2020-01-01"

\* before and after the working hours, between two slots, no dateTime at all
OffSlotTimes ==
    {getTodayDate \o " 07:30", getTodayDate \o " 18:00", getTodayDate \o " 09:15", "whenever"}

\* a slot of a day long gone
UnofferedTimes == OffSlotTimes \cup {PastDate \o " 09:30"}

\* calls made by this client
MaxTimeOps == 3

TimesNext ==
    \/ ClientCall /\ seeded = 0 /\ generateDefaultAppointments
    \/ ClientCall /\ nOps < MaxTimeOps /\ seeded > 0
          /\ \E t \in UnofferedTimes :
                 scheduleAppointment(t, [kind |-> "registry", idx |-> 1], patients[1])
    \/ ClientCall /\ nOps < MaxTimeOps /\ seeded > 0
          /\ \E t \in UnofferedTimes : cancelAppointment(t, "Alice Smith", "John Smith")

SpecTimes == Init /\ [][TimesNext]_vars

-----------------------------------------------------------------------------
(* A client that issues visit cards, before and after the seeding, and     *)
(* books, cancels and registers in between                                 *)

Diagnoses == {"flu", "cold"}

\* the arguments of addHospitalVisitCard: John Smith's record, the record of
\* Alice Smith or Bob Johnson, today 17:00 (seeded for John Smith with Alice
\* Smith, never booked with Bob Johnson) and a diagnosis
CardInputs ==
    {<<doctors[1], patients[j], SeedSlot, diag>> : j \in {1, 2}, diag \in Diagnoses}

CardsNext ==
    \/ ClientCall /\ seeded = 0 /\ generateDefaultAppointments
    \/ ClientCall
          /\ \E card \in CardInputs :
                 addHospitalVisitCard(card[1], card[2], card[3], card[4])
    \/ ClientCall /\ seeded > 0 /\ cancelAppointment(SeedSlot, "Alice Smith", "John Smith")
    \/ ClientCall /\ seeded > 0
          /\ \E dref \in DoctorRefs : scheduleAppointment(SeedSlot, dref, patients[1])
    \/ ClientCall /\ seeded > 0 /\ addPatient("Nina New", "01.01.1990")

SpecCards == Init /\ [][CardsNext]_vars

-----------------------------------------------------------------------------
(* A client that calls generateDefaultAppointments on a registry that is   *)
(* not fresh: after bookings or registrations, or a second time            *)

\* calls of generateDefaultAppointments by this client
MaxSeedings == 2

ReseedNext ==
    \/ ClientCall /\ seeded < MaxSeedings /\ generateDefaultAppointments
    \/ ClientCall
          /\ \E t \in DateTimes, j \in {1, 2} :
                 scheduleAppointment(t, [kind |-> "registry", idx |-> 1], patients[j])
    \/ ClientCall /\ \E t \in DateTimes : cancelAppointment(t, "Alice Smith", "John Smith")
    \/ ClientCall /\ addPatient("Nina New", "01.01.1990")

SpecReseed == Init /\ [][ReseedNext]_vars

-----------------------------------------------------------------------------
(* Callers of scheduleAppointment on one Registry.  The program has one     *)
(* thread and every call runs to completion (oneAtATime); the code has no   *)
(* lock, so with concurrent callers a call is two steps, the test of        *)
(* isAvailable and then the appends, and other callers run in between.      *)
(* route holds the discipline and each caller's position: <<>> outside a    *)
(* call, the arguments of its call between the test and the appends.        *)

Callers == {1, 2}

CallerTimes == {SeedSlot, getTodayDate \o " 09:30"}

CallersInit ==
    /\ now \in Clock
    /\ seeded = 0
    /\ doctors = InitialDoctors
    /\ patients = InitialPatients
    /\ appointments = <<>>
    /\ visitCards = <<>>
    /\ heldDoctor = <<>>
    /\ heldPatient = <<>>
    /\ last = [op |-> "Registry", args |-> <<>>, result |-> "ok", ret |-> <<>>]
    /\ nOps = 0
    /\ \E oneAtATime \in BOOLEAN :
           route = [oneAtATime |-> oneAtATime, at |-> [c \in Callers |-> <<>>]]

\* caller c enters scheduleAppointment and runs the test of line 298
checkAvailability(c, dateTime, dref, patient) ==
    /\ ~route.oneAtATime
    /\ route.at[c] = <<>>
    /\ IF isAvailable(Deref(dref), dateTime)
       THEN /\ route' = [route EXCEPT !.at[c] = <<dateTime, dref, patient>>]
            /\ UNCHANGED <<registry, heldDoctor, last, nOps>>
       ELSE /\ refuseBooking(dateTime, dref, patient)
            /\ UNCHANGED route
    /\ UNCHANGED <<now, seeded, visitCards, heldPatient>>

\* caller c, past the test, runs lines 301-309 and returns
completeBooking(c) ==
    /\ ~route.oneAtATime
    /\ route.at[c] # <<>>
    /\ appendBooking(route.at[c][1], route.at[c][2], route.at[c][3])
    /\ route' = [route EXCEPT !.at[c] = <<>>]
    /\ UNCHANGED <<now, seeded, visitCards, heldPatient>>

\* the registry is seeded once and first, as Menu::start does
CallersNext ==
    \/ ClientCall /\ seeded = 0 /\ generateDefaultAppointments
    \/ ClientCall /\ seeded > 0 /\ route.oneAtATime
          /\ \E t \in CallerTimes, j \in {1, 2} :
                 scheduleAppointment(t, [kind |-> "registry", idx |-> 1], patients[j])
    \/ nOps < MaxOps /\ seeded > 0
          /\ \E c \in Callers, t \in CallerTimes :
                 checkAvailability(c, t, [kind |-> "registry", idx |-> 1], patients[c])
    \/ seeded > 0 /\ \E c \in Callers : completeBooking(c)
    \/ ClientCall /\ seeded > 0
          /\ \E t \in CallerTimes : cancelAppointment(t, "Alice Smith", "John Smith")

SpecCallers == CallersInit /\ [][CallersNext]_vars

-----------------------------------------------------------------------------
(* A client that indexes the registry's vectors, before the seeding (no     *)
(* appointment yet) and after it, between bookings and cancellations        *)

\* below 0, the first, inside, the last of 8, 8, the last of 32, 32, above
Indexes == {-1, 0, 3, 7, 8, 31, 32, 33}

IndexNext ==
    \/ ClientCall /\ seeded = 0 /\ generateDefaultAppointments
    \/ ClientCall
          /\ \E index \in Indexes, which \in {"appointments", "patients", "doctors"} :
                 callGetByIndex(index, which)
    \/ ClientCall /\ seeded > 0
          /\ scheduleAppointment(getTodayDate \o " 09:30",
                                 [kind |-> "registry", idx |-> 1], patients[1])
    \/ ClientCall /\ seeded > 0
          /\ cancelAppointment(SeedSlot, "Alice Smith", "John Smith")

SpecIndex == Init /\ [][IndexNext]_vars

-----------------------------------------------------------------------------
(* The program: main() constructs the Registry and runs Menu::start.       *)
(* route is the menu the user is prompted by: "start" before Menu::start   *)
(* has run, "main", "patient" (the local Patient of patientRoute is        *)
(* heldPatient), "registrator", "exit" after choice 3 and "terminated"     *)
(* after an exception, which nothing in the program catches.               *)

\* an exception thrown by the Registry call of this step leaves main()
Propagate ==
    route' = IF last'.result \in {"NotFound", "OutOfRange", "OutOfBounds"}
             THEN "terminated" ELSE route

\* InputOutput::getValidChoice(vec) when the user types choice
getValidChoice(choice, vec) ==
    IF choice < 1 \/ choice > Len(vec) THEN -1 ELSE choice

\* registry.getByIndex(index, items) throws inside a menu
indexThrows(index, which) ==
    /\ Returned("getByIndex", <<index, which>>, "OutOfRange", <<>>)
    /\ UNCHANGED <<now, seeded, registry, heldDoctor, heldPatient>>
    /\ Propagate

\* what a read outside a vector of strings may give, when it gives anything
GarbageTimes == {"", SeedSlot}
GarbageNames == {"", "John Smith"}

\* a variant of Menu::start that does not seed
start_noSeed ==
    /\ route = "start"
    /\ route' = "main"
    /\ UNCHANGED <<now, seeded, registry, heldDoctor, heldPatient, last, nOps>>

\* Menu::start up to the first prompt: registry.generateDefaultAppointments()
start ==
    /\ route = "start"
    /\ generateDefaultAppointments
    /\ route' = "main"

\* choice 1 of the main menu: patientRoute() begins with
\* Patient patient = registerPatient(), which calls registry.addPatient
registerPatient(patientName, dateOfBirth) ==
    /\ route = "main"
    /\ addPatient(patientName, dateOfBirth)
    /\ route' = "patient"

\* choice 2 of the main menu: registratorRoute() prompts
registratorRoute ==
    /\ route = "main"
    /\ route' = "registrator"
    /\ UNCHANGED <<now, seeded, registry, heldDoctor, heldPatient, last, nOps>>

\* choice 4 of the patient menu, choice 6 of the registrator menu
returnToMainMenu ==
    /\ route \in {"patient", "registrator"}
    /\ route' = "main"
    /\ UNCHANGED <<now, seeded, registry, heldDoctor, heldPatient, last, nOps>>

\* choice 3 of the main menu: start() returns, main() returns 0
exitMenu ==
    /\ route = "main"
    /\ route' = "exit"
    /\ UNCHANGED <<now, seeded, registry, heldDoctor, heldPatient, last, nOps>>

\* Menu::scheduleAppointmentMenu(patient): the doctor is the registry record
\* chosen from the list (an out-of-range choice is asked again), the time is
\* chosen from getAvailableTimesForDoctor; getValidChoice gives -1 for a
\* choice outside the list and the menu returns
scheduleAppointmentMenu(patient, doctorChoice, date, timeChoice) ==
    /\ doctorChoice \in 1..Len(doctors)
    /\ LET doctorName == doctors[doctorChoice].name
           availableTimes == getAvailableTimesForDoctor(date, doctorName)
       IN  IF timeChoice < 1 \/ timeChoice > Len(availableTimes)
           THEN /\ Returned("getAvailableTimesForDoctor", <<date, doctorName>>, "ok", <<>>)
                /\ UNCHANGED <<now, seeded, registry, heldDoctor, heldPatient>>
           ELSE scheduleAppointment(availableTimes[timeChoice][1],
                                    [kind |-> "registry", idx |-> doctorChoice], patient)
    /\ Propagate

\* choice 1 of the patient menu: scheduleAppointmentMenu(&patient)
patientSchedule(doctorChoice, date, timeChoice) ==
    /\ route = "patient"
    /\ scheduleAppointmentMenu(heldPatient[1], doctorChoice, date, timeChoice)

\* Menu::choosePatient: getValidChoice, then getByIndex(choice - 1) with no
\* test of the -1
choosePatient(patientChoice) ==
    getByIndex(getValidChoice(patientChoice, patients) - 1, patients)

\* scheduleAppointmentMenu(choosePatient()) of the registrator menu
registratorSchedule(patientChoice, doctorChoice, date, timeChoice) ==
    /\ route = "registrator"
    /\ IF choosePatient(patientChoice) = <<>>
       THEN indexThrows(getValidChoice(patientChoice, patients) - 1, "patients")
       ELSE scheduleAppointmentMenu(choosePatient(patientChoice)[1],
                                    doctorChoice, date, timeChoice)

\* Menu::cancelAppointmentMenu(Patient *patient), choice 2 of the patient
\* menu: the choice is read by getUserChoice and used as a subscript with
\* no test.  Outside the list appoinments[choice - 1] is undefined: the
\* process is killed or ends on an exception of the string copy
\* ("OutOfBounds"), or the two strings read are whatever lies there
patientCancel(choice) ==
    /\ route = "patient"
    /\ LET name == heldPatient[1].name
           p == findPatientByName(name)
       IN  IF p = NotFound
           THEN /\ Returned("findPatientByName", <<name>>, "NotFound", <<>>)
                /\ UNCHANGED <<now, seeded, registry, heldDoctor, heldPatient>>
           ELSE IF Len(patients[p].appointments) = 0
           THEN /\ Returned("findPatientByName", <<name>>, "ok", <<p>>)
                /\ UNCHANGED <<now, seeded, registry, heldDoctor, heldPatient>>
           ELSE IF choice \in 1..Len(patients[p].appointments)
           THEN cancelAppointment(patients[p].appointments[choice][1], name,
                                  patients[p].appointments[choice][2][2])
           ELSE \/ /\ Returned("operator[]", <<choice - 1>>, "OutOfBounds", <<>>)
                   /\ UNCHANGED <<now, seeded, registry, heldDoctor, heldPatient>>
                \/ \E dateTime \in GarbageTimes, doctorName \in GarbageNames :
                       cancelAppointment(dateTime, name, doctorName)
    /\ Propagate

\* Menu::showAppointmentsForPatient, choice 3 of the patient menu
showAppointmentsForPatient ==
    /\ route = "patient"
    /\ callFindPatientByName(heldPatient[1].name)
    /\ Propagate

\* Menu::getAppointmentFromUser: getValidChoice, then getByIndex(choice - 1)
\* with no test of the -1
getAppointmentFromUser(choice) ==
    getByIndex(getValidChoice(choice, appointments) - 1, appointments)

\* Menu::cancelAppointmentMenu(), choice 2 of the registrator menu:
\* getAppointmentFromUser, findDoctorByName, then cancelAppointment with the
\* strings of the chosen appointment
registratorCancel(choice) ==
    /\ route = "registrator"
    /\ IF getAppointmentFromUser(choice) = <<>>
       THEN indexThrows(getValidChoice(choice, appointments) - 1, "appointments")
       ELSE LET appointment == getAppointmentFromUser(choice)[1]
            IN  /\ IF findDoctorByName(appointment.doctor.name) = NotFound
                   THEN /\ Returned("findDoctorByName", <<appointment.doctor.name>>,
                                    "NotFound", <<>>)
                        /\ UNCHANGED <<now, seeded, registry, heldDoctor, heldPatient>>
                   ELSE cancelAppointment(appointment.dateTime, appointment.patient.name,
                                          appointment.doctor.name)
                /\ Propagate

\* Menu::addVisitCardMenu, choice 3 of the registrator menu: getValidChoice,
\* then getByIndex(choice - 1) with no test of the -1
addVisitCardMenu(choice, diagnosis) ==
    /\ route = "registrator"
    /\ LET appointment == getByIndex(getValidChoice(choice, appointments) - 1, appointments)
       IN  IF appointment = <<>>
           THEN indexThrows(getValidChoice(choice, appointments) - 1, "appointments")
           ELSE /\ addHospitalVisitCard(appointment[1].doctor, appointment[1].patient,
                                        appointment[1].dateTime, diagnosis)
                /\ UNCHANGED route

\* Menu::getVisitCardMenu, choice 4 of the registrator menu: choosePatient,
\* then getVisitCardsForPatient
getVisitCardMenu(patientChoice) ==
    /\ route = "registrator"
    /\ IF choosePatient(patientChoice) = <<>>
       THEN indexThrows(getValidChoice(patientChoice, patients) - 1, "patients")
       ELSE /\ Returned("getVisitCardsForPatient", choosePatient(patientChoice), "ok",
                        <<getVisitCardsForPatient(choosePatient(patientChoice)[1])>>)
            /\ UNCHANGED <<now, seeded, registry, heldDoctor, heldPatient, route>>

\* Menu::getDoctorSchedule, choice 5 of the registrator menu:
\* selectDoctorFromList asks again until the choice is inside the list
getDoctorSchedule(doctorChoice) ==
    /\ route = "registrator"
    /\ doctorChoice \in 1..Len(doctors)
    /\ Returned("getDoctors", <<>>, "ok", <<doctorChoice>>)
    /\ UNCHANGED <<now, seeded, registry, heldDoctor, heldPatient, route>>

\* main(): the Registry is constructed, Menu::start has not run yet
MenuInit ==
    /\ now \in Clock
    /\ seeded = 0
    /\ doctors = InitialDoctors
    /\ patients = InitialPatients
    /\ appointments = <<>>
    /\ visitCards = <<>>
    /\ heldDoctor = <<>>
    /\ heldPatient = <<>>
    /\ last = [op |-> "Registry", args |-> <<>>, result |-> "ok", ret |-> <<>>]
    /\ nOps = 0
    /\ route = "start"

\* Registry calls made through the menus of one run
MaxMenuOps == 4

\* what the user types: the first or the last entry of a list, 0 for a
\* number outside the list of times
MenuDoctorChoices == {1}
MenuTimeChoices == {0, 1}
MenuPatientChoices == {1, Len(patients)}
MenuAppointmentChoices == {1, Len(appointments)}
MenuEntryChoices == {1}
MenuBirthDates == {"01.01.1990"}
MenuDiagnoses == {"flu"}

MenuNext ==
    \/ start
    \/ nOps < MaxMenuOps
          /\ \E n \in NewPatientNames, dob \in MenuBirthDates : registerPatient(n, dob)
    \/ registratorRoute
    \/ returnToMainMenu
    \/ exitMenu
    \/ nOps < MaxMenuOps
          /\ \E dc \in MenuDoctorChoices, date \in Dates, tc \in MenuTimeChoices :
                 patientSchedule(dc, date, tc)
    \/ nOps < MaxMenuOps
          /\ \E pc \in MenuPatientChoices, dc \in MenuDoctorChoices, date \in Dates,
                tc \in MenuTimeChoices : registratorSchedule(pc, dc, date, tc)
    \/ nOps < MaxMenuOps /\ \E c \in MenuEntryChoices : patientCancel(c)
    \/ nOps < MaxMenuOps /\ showAppointmentsForPatient
    \/ nOps < MaxMenuOps /\ \E c \in MenuAppointmentChoices : registratorCancel(c)
    \/ nOps < MaxMenuOps
          /\ \E c \in MenuAppointmentChoices, diag \in MenuDiagnoses :
                 addVisitCardMenu(c, diag)
    \/ nOps < MaxMenuOps /\ \E pc \in MenuPatientChoices : getVisitCardMenu(pc)
    \/ nOps < MaxMenuOps /\ \E dc \in MenuDoctorChoices : getDoctorSchedule(dc)

SpecMenu == MenuInit /\ [][MenuNext]_vars

\* a user who also types numbers below and above the displayed list
AnyDoctorChoices == {1}
AnyTimeChoices == {0, 1}
AnyPatientChoices == {0, 1, Len(patients) + 1}
AnyAppointmentChoices == {0, 1, Len(appointments) + 1}
AnyEntryChoices == {0, 1, 5}

MenuAnyNext ==
    \/ start
    \/ nOps < MaxMenuOps
          /\ \E n \in NewPatientNames, dob \in MenuBirthDates : registerPatient(n, dob)
    \/ registratorRoute
    \/ returnToMainMenu
    \/ exitMenu
    \/ nOps < MaxMenuOps
          /\ \E dc \in AnyDoctorChoices, date \in Dates, tc \in AnyTimeChoices :
                 patientSchedule(dc, date, tc)
    \/ nOps < MaxMenuOps
          /\ \E pc \in AnyPatientChoices, dc \in AnyDoctorChoices, date \in Dates,
                tc \in AnyTimeChoices : registratorSchedule(pc, dc, date, tc)
    \/ nOps < MaxMenuOps /\ \E c \in AnyEntryChoices : patientCancel(c)
    \/ nOps < MaxMenuOps /\ showAppointmentsForPatient
    \/ nOps < MaxMenuOps /\ \E c \in AnyAppointmentChoices : registratorCancel(c)
    \/ nOps < MaxMenuOps
          /\ \E c \in AnyAppointmentChoices, diag \in MenuDiagnoses :
                 addVisitCardMenu(c, diag)
    \/ nOps < MaxMenuOps /\ \E pc \in AnyPatientChoices : getVisitCardMenu(pc)
    \/ nOps < MaxMenuOps /\ \E dc \in AnyDoctorChoices : getDoctorSchedule(dc)

SpecMenuAny == MenuInit /\ [][MenuAnyNext]_vars

-----------------------------------------------------------------------------
(* The program with a registrator who books John Smith's first free slot   *)
(* of today for the first patient until none is offered                    *)

\* the days the clock may show when this run starts
FillClock == Clock \cup { <<2025, 12, 31>>, <<2025, 2, 28>> }

FillInit ==
    /\ now \in FillClock
    /\ seeded = 0
    /\ doctors = InitialDoctors
    /\ patients = InitialPatients
    /\ appointments = <<>>
    /\ visitCards = <<>>
    /\ heldDoctor = <<>>
    /\ heldPatient = <<>>
    /\ last = [op |-> "Registry", args |-> <<>>, result |-> "ok", ret |-> <<>>]
    /\ nOps = 0
    /\ route = "start"

\* Registry calls of this run: the seeding, the 16 bookings that fill John
\* Smith's day and two more attempts
MaxFillOps == 19

FillNext ==
    \/ start
    \/ registratorRoute
    \/ returnToMainMenu
    \/ nOps < MaxFillOps /\ registratorSchedule(1, 1, getTodayDate, 1)

SpecFill == FillInit /\ [][FillNext]_vars

-----------------------------------------------------------------------------
(* Vocabulary of the properties *)

\* the step is a call of op (a stuttering step is no call)
IsCall(op) == last'.op = op /\ nOps' = nOps + 1

\* the positions of a list
Positions(seq) == 1..Len(seq)

\* some entry of a person's list has that dateTime
HasEntryAt(person, dateTime) ==
    \E k \in Positions(person.appointments) : person.appointments[k][1] = dateTime

\* the (dateTime, patientName, doctorName) entry a global appointment stands for
TripleOf(app) == Entry(app.dateTime, app.patient.name, app.doctor.name)

\* how often x occurs in seq
Count(seq, x) == Cardinality({k \in Positions(seq) : seq[k] = x})

\* the positions of the registry records with that name
DoctorsNamed(name) == {i \in Positions(doctors) : doctors[i].name = name}
PatientsNamed(name) == {j \in Positions(patients) : patients[j].name = name}

\* new is old with exactly x appended
AppendedOne(old, new, x) ==
    /\ Len(new) = Len(old) + 1
    /\ \A k \in Positions(old) : new[k] = old[k]
    /\ new[Len(new)] = x

-----------------------------------------------------------------------------
(* C1 *)

\* C1: once seeded, the global list never holds two appointments with the
\* same (doctorName, dateTime), and no registry doctor's own list holds two
\* entries with the same dateTime.
C1_NoDoubleBooking ==
    seeded > 0 =>
        /\ \A a, b \in Positions(appointments) :
               (/\ appointments[a].doctor.name = appointments[b].doctor.name
                /\ appointments[a].dateTime = appointments[b].dateTime) => a = b
        /\ \A i \in Positions(doctors) :
               \A a, b \in Positions(doctors[i].appointments) :
                   doctors[i].appointments[a][1] = doctors[i].appointments[b][1] => a = b

-----------------------------------------------------------------------------
(* C2 *)

\* C2: a scheduleAppointment call whose Doctor argument already has an entry
\* with exactly the requested dateTime fails ("unavailable") and changes
\* nothing: not the global list, no doctor's list (the argument included), no
\* patient's list, not the patient list, not the visit cards.
C2_UnavailableNoMutation ==
    [][ (/\ IsCall("scheduleAppointment")
         /\ HasEntryAt(Deref(last'.args[2]), last'.args[1]))
        => (/\ last'.result = "unavailable"
            /\ UNCHANGED <<doctors, patients, appointments, visitCards,
                           heldDoctor, heldPatient>>) ]_vars

\* a booking was refused on a doctor who has an entry at that dateTime
C2_Witness ==
    /\ last.op = "scheduleAppointment"
    /\ last.result = "unavailable"
    /\ HasEntryAt(Deref(last.args[2]), last.args[1])

-----------------------------------------------------------------------------
(* C3 *)

\* C3: a successful scheduleAppointment(dateTime, doctor, patient) appends
\* exactly one entry (dateTime, patientName, doctorName) to the end of the
\* list of the Doctor passed, exactly one to the end of the list of the first
\* registry patient with patient's name, and exactly one Appointment to the
\* end of the global list; every other doctor and patient record, the number
\* and identity of patients, the visit cards and the Patient object held by
\* the caller are unchanged.
C3_SuccessAppendsThree ==
    [][ (IsCall("scheduleAppointment") /\ last'.result = "scheduled") =>
        LET dateTime == last'.args[1]
            dref == last'.args[2]
            patient == last'.args[3]
            e == Entry(dateTime, patient.name, Deref(dref).name)
            p == CHOOSE j \in PatientsNamed(patient.name) :
                     \A k \in PatientsNamed(patient.name) : j <= k
        IN  /\ PatientsNamed(patient.name) # {}
            /\ IF dref.kind = "registry"
               THEN /\ AppendedOne(doctors[dref.idx].appointments,
                                   doctors'[dref.idx].appointments, e)
                    /\ doctors'[dref.idx].name = doctors[dref.idx].name
                    /\ \A i \in Positions(doctors) : i # dref.idx => doctors'[i] = doctors[i]
                    /\ UNCHANGED heldDoctor
               ELSE /\ AppendedOne(heldDoctor[1].appointments, heldDoctor'[1].appointments, e)
                    /\ heldDoctor'[1].name = heldDoctor[1].name
                    /\ UNCHANGED doctors
            /\ Len(doctors') = Len(doctors)
            /\ AppendedOne(patients[p].appointments, patients'[p].appointments, e)
            /\ patients'[p].name = patients[p].name
            /\ patients'[p].dateOfBirth = patients[p].dateOfBirth
            /\ Len(patients') = Len(patients)
            /\ \A j \in Positions(patients) : j # p => patients'[j] = patients[j]
            /\ Len(appointments') = Len(appointments) + 1
            /\ \A k \in Positions(appointments) : appointments'[k] = appointments[k]
            /\ TripleOf(appointments'[Len(appointments')]) = e
            /\ UNCHANGED <<visitCards, heldPatient>> ]_vars

\* a booking succeeded for a Patient object that is not the registry's record:
\* the registry's record has the new entry last, the object passed has not
C3_Witness ==
    /\ last.op = "scheduleAppointment"
    /\ last.result = "scheduled"
    /\ heldPatient = <<last.args[3]>>
    /\ \E j \in PatientsNamed(last.args[3].name) :
           /\ patients[j].appointments # last.args[3].appointments
           /\ patients[j].appointments[Len(patients[j].appointments)][1] = last.args[1]

-----------------------------------------------------------------------------
(* C4 *)

\* the three appends of a booking: each has happened or not in this step
DoctorListExtended(dref) ==
    IF dref.kind = "registry"
    THEN Len(doctors'[dref.idx].appointments) = Len(doctors[dref.idx].appointments) + 1
    ELSE Len(heldDoctor'[1].appointments) = Len(heldDoctor[1].appointments) + 1

DoctorListSame(dref) == UNCHANGED <<doctors, heldDoctor>>

\* C4: scheduleAppointment is all-or-nothing: whatever the outcome (the
\* NotFound of an unregistered patient name included), either the Doctor's
\* list, one patient's list and the global list have each grown by one, or
\* none of the three has changed.
C4_AllOrNothing ==
    [][ IsCall("scheduleAppointment") =>
        \/ /\ DoctorListExtended(last'.args[2])
           /\ \E j \in Positions(patients) :
                  Len(patients'[j].appointments) = Len(patients[j].appointments) + 1
           /\ Len(appointments') = Len(appointments) + 1
        \/ /\ DoctorListSame(last'.args[2])
           /\ UNCHANGED <<patients, appointments>> ]_vars

-----------------------------------------------------------------------------
(* C5 *)

\* the global appointments' triples, for one doctor name or patient name
GlobalTriplesOfDoctor(name) ==
    SelectSeq([k \in Positions(appointments) |-> TripleOf(appointments[k])],
              LAMBDA e : e[2][2] = name)

GlobalTriplesOfPatient(name) ==
    SelectSeq([k \in Positions(appointments) |-> TripleOf(appointments[k])],
              LAMBDA e : e[2][1] = name)

\* the two lists hold the same entries the same number of times
SameMultiset(s, t) ==
    /\ Len(s) = Len(t)
    /\ \A k \in Positions(s) : Count(s, s[k]) = Count(t, s[k])

\* C5: once seeded, every registered doctor's list holds, as a multiset,
\* exactly the triples of the global appointments with that doctor's name,
\* and every registered patient's list those with that patient's name.
C5_MirrorConsistency ==
    seeded > 0 =>
        /\ \A i \in Positions(doctors) :
               SameMultiset(doctors[i].appointments, GlobalTriplesOfDoctor(doctors[i].name))
        /\ \A j \in Positions(patients) :
               SameMultiset(patients[j].appointments, GlobalTriplesOfPatient(patients[j].name))

-----------------------------------------------------------------------------
(* C6 *)

\* date(t) of a dateTime the client passes
DateOf(t) == CHOOSE d \in Dates : \E tm \in InputTimes : t = d \o " " \o tm

\* t is offered for that doctor on the date of t
Listed(t, doctorName) ==
    LET availableTimes == getAvailableTimesForDoctor(DateOf(t), doctorName)
    IN  \E k \in Positions(availableTimes) : availableTimes[k][1] = t

\* the two conditions under which scheduleAppointment books
ScheduleSucceeds(t, dref, patientName) ==
    /\ ~HasEntryAt(Deref(dref), t)
    /\ PatientsNamed(patientName) # {}

\* every Doctor& a client can pass
AllDoctorRefs ==
    {[kind |-> "registry", idx |-> i] : i \in Positions(doctors)} \cup {[kind |-> "held"]}

\* C6: for every dateTime t, Doctor doc and Patient pat: right after a
\* successful scheduleAppointment(t, doc, pat), t is not offered by
\* getAvailableTimesForDoctor(date(t), doc); right after a following
\* cancelAppointment(t, pat, doc), t is offered again and a second
\* scheduleAppointment(t, doc, pat) would succeed.
C6_SlotSymmetry ==
    [][ /\ (IsCall("scheduleAppointment") /\ last'.result = "scheduled") =>
               \A t \in DateTimes, dn \in DoctorNames :
                   (last'.args[1] = t /\ Deref(last'.args[2]).name = dn)
                   => ~(Listed(t, dn))'
        /\ (/\ last.op = "scheduleAppointment"
            /\ last.result = "scheduled"
            /\ IsCall("cancelAppointment")
            /\ last'.args = <<last.args[1], last.args[3].name, Deref(last.args[2]).name>>) =>
               \A t \in DateTimes, dref \in AllDoctorRefs, pn \in PatientNames, dn \in DoctorNames :
                   (last'.args = <<t, pn, dn>> /\ last.args[2] = dref)
                   => /\ (Listed(t, dn))'
                      /\ (ScheduleSucceeds(t, dref, pn))' ]_vars

-----------------------------------------------------------------------------
(* C7 *)

\* new is old without the elements whose key is x, the others in their order
\* (keys[k] is the key of old[k])
RemovedExactly(old, new, keys, x) ==
    LET kept == {k \in Positions(old) : keys[k] # x}
    IN  /\ Len(new) = Cardinality(kept)
        /\ \A k \in kept : new[Cardinality({m \in kept : m <= k})] = old[k]

\* C7: cancelAppointment(dateTime, patientName, doctorName) removes from the
\* global list, from the list of the doctor of that name and from the list of
\* the patient of that name exactly the entries equal to the triple in all
\* three fields (all of them), keeps every other entry in its order, and
\* leaves every other doctor and patient as it was.
C7_CancelRemovesExactly ==
    [][ IsCall("cancelAppointment") =>
        LET e == Entry(last'.args[1], last'.args[2], last'.args[3])
        IN  /\ RemovedExactly(appointments, appointments',
                              [k \in Positions(appointments) |-> TripleOf(appointments[k])], e)
            /\ Len(doctors') = Len(doctors)
            /\ \A i \in Positions(doctors) :
                   IF doctors[i].name = last'.args[3]
                   THEN RemovedExactly(doctors[i].appointments, doctors'[i].appointments,
                                       doctors[i].appointments, e)
                   ELSE doctors'[i] = doctors[i]
            /\ Len(patients') = Len(patients)
            /\ \A j \in Positions(patients) :
                   IF patients[j].name = last'.args[2]
                   THEN RemovedExactly(patients[j].appointments, patients'[j].appointments,
                                       patients[j].appointments, e)
                   ELSE patients'[j] = patients[j] ]_vars

-----------------------------------------------------------------------------
(* C8 *)

\* the triple matches no appointment: not in the global list, in no doctor's
\* list, in no patient's list
MatchesNothing(dateTime, patientName, doctorName) ==
    LET e == Entry(dateTime, patientName, doctorName)
    IN  /\ \A k \in Positions(appointments) : TripleOf(appointments[k]) # e
        /\ \A i \in Positions(doctors) : Count(doctors[i].appointments, e) = 0
        /\ \A j \in Positions(patients) : Count(patients[j].appointments, e) = 0

\* C8: cancelAppointment of a triple that matches no appointment (names that
\* are not registered included) raises no error and leaves the global list
\* and every doctor's and patient's list unchanged.
C8_CancelMissIsSilentNoOp ==
    [][ (/\ IsCall("cancelAppointment")
         /\ MatchesNothing(last'.args[1], last'.args[2], last'.args[3]))
        => (/\ last'.result = "canceled"
            /\ UNCHANGED <<appointments, doctors, patients>>) ]_vars

-----------------------------------------------------------------------------
(* C9 *)

\* no two patients of the list have the same name
UniquePatientNames ==
    \A j, k \in Positions(patients) : patients[j].name = patients[k].name => j = k

\* C9: no two patients ever have the same name; addPatient(name, dob) for a
\* name already present leaves the patient list (dates of birth and
\* appointment lists included) unchanged and returns a copy of the existing
\* record; for a new name it appends exactly one patient (name, dob) with an
\* empty appointment list at the end and returns a copy of it.
C9_AddPatientIdempotent ==
    /\ [] UniquePatientNames
    /\ [][ IsCall("addPatient") =>
           LET name == last'.args[1]
               dob == last'.args[2]
           IN  IF PatientsNamed(name) # {}
               THEN /\ UNCHANGED patients
                    /\ \E j \in PatientsNamed(name) : last'.ret = <<patients[j]>>
               ELSE /\ AppendedOne(patients, patients',
                                   [name |-> name, dateOfBirth |-> dob, appointments |-> <<>>])
                    /\ last'.ret = <<patients'[Len(patients')]>> ]_vars

\* addPatient was called for a registered name with another date of birth
\* than the stored one, and the record with the stored one came back
C9_Witness ==
    /\ last.op = "addPatient"
    /\ last.result = "exists"
    /\ \E j \in PatientsNamed(last.args[1]) :
           /\ patients[j].dateOfBirth # last.args[2]
           /\ last.ret = <<patients[j]>>

-----------------------------------------------------------------------------
(* C10 *)

\* the names a lookup may be asked for
LookupNames == PatientNames \cup DoctorNames

\* idx is what a first-match scan of people for name yields
FirstNamed(people, idx, name) ==
    LET named == {k \in Positions(people) : people[k].name = name}
    IN  IF named = {} THEN idx = NotFound
        ELSE idx \in named /\ \A k \in named : idx <= k

\* C10: findPatientByName(name) yields the first patient with exactly that
\* name and NotFound if and only if there is none, which is exactly when
\* patientExists(name) is false; findDoctorByName does the same over the
\* doctor list; a call of either changes nothing in the registry.
C10_LookupsExactAndPure ==
    /\ [] (\A n \in LookupNames :
               /\ FirstNamed(patients, findPatientByName(n), n)
               /\ (findPatientByName(n) = NotFound) <=> ~patientExists(n)
               /\ FirstNamed(doctors, findDoctorByName(n), n))
    /\ [][ /\ IsCall("findPatientByName") =>
               /\ UNCHANGED registry
               /\ (last'.result = "NotFound") <=> (PatientsNamed(last'.args[1]) = {})
               /\ last'.result # "NotFound" => FirstNamed(patients, last'.ret[1], last'.args[1])
           /\ IsCall("findDoctorByName") =>
               /\ UNCHANGED registry
               /\ (last'.result = "NotFound") <=> (DoctorsNamed(last'.args[1]) = {})
               /\ last'.result # "NotFound" => FirstNamed(doctors, last'.ret[1], last'.args[1])
         ]_vars

\* findPatientByName ended with NotFound for a name no patient has, on a
\* patient list that addPatient has already extended
C10_Witness ==
    /\ last.op = "findPatientByName"
    /\ last.result = "NotFound"
    /\ PatientsNamed(last.args[1]) = {}
    /\ Len(patients) > Len(InitialPatients)

-----------------------------------------------------------------------------
(* C11 *)

\* the dates a query is asked for: today, tomorrow and a day without bookings
QueryDates == Dates \cup {"2031-05-06"}

\* the times of day offered, written out
Slots ==
    << "08:00", "08:30", "09:00", "09:30", "10:00", "10:30", "11:00", "11:30",
       "12:00", "12:30", "13:00", "13:30", "14:00", "14:30", "15:00", "15:30",
       "16:00", "16:30", "17:00", "17:30" >>

\* the slots of a date that the doctor's list has no entry for, as pairs, in
\* ascending order of time
FreeSlotsOf(doctor, date) ==
    SelectSeq([k \in Positions(Slots) |-> <<date \o " " \o Slots[k], doctor.name>>],
              LAMBDA pr : ~HasEntryAt(doctor, pr[1]))

\* the free slots of the doctors from position i on, doctor after doctor
RECURSIVE WalkDoctors(_, _)
WalkDoctors(date, i) ==
    IF i > Len(doctors) THEN <<>>
    ELSE FreeSlotsOf(doctors[i], date) \o WalkDoctors(date, i + 1)

\* the (dateTime, doctorName) pairs that are in the list of a doctor of
\* that name
BookedPairs ==
    UNION { {<<doctors[i].appointments[k][1], doctors[i].name>> :
                 k \in Positions(doctors[i].appointments)} : i \in Positions(doctors) }

\* C11: in every state and for every date, getAvailableTimes(date) is the
\* sequence got by walking the doctor list in registry order and, for each
\* doctor, the 20 slots 08:00 .. 17:30 in ascending order, keeping
\* (date + " " + HH:MM, doctorName) exactly when that doctor's list has no
\* entry with that dateTime; no pair occurs twice, 18:00 is never offered
\* and no pair names a slot that is in the list of the doctor it names.
C11_AvailableTimesExact ==
    \A date \in QueryDates :
        LET availableTimes == getAvailableTimes(date)
        IN  /\ availableTimes = WalkDoctors(date, 1)
            /\ Cardinality({availableTimes[k] : k \in Positions(availableTimes)})
                   = Len(availableTimes)
            /\ \A k \in Positions(availableTimes) :
                   /\ availableTimes[k][1] # date \o " 18:00"
                   /\ availableTimes[k] \notin BookedPairs

\* a free slot of John Smith (today 09:30) was booked on the registry's
\* record: the pair is gone from getAvailableTimes(today), the pair before
\* it (09:00 is seeded, so 08:30) and the pair after it (10:30, 10:00 being
\* seeded) are still there, and 160 - 16 - 1 pairs are offered
C11_Witness ==
    /\ last.op = "scheduleAppointment"
    /\ last.result = "scheduled"
    /\ last.args[1] = getTodayDate \o " 09:30"
    /\ last.args[2] = [kind |-> "registry", idx |-> 1]
    /\ LET availableTimes == getAvailableTimes(getTodayDate)
       IN  /\ Len(availableTimes) = 160 - 16 - 1
           /\ availableTimes[1] = <<getTodayDate \o " 08:00", "John Smith">>
           /\ availableTimes[2] = <<getTodayDate \o " 08:30", "John Smith">>
           /\ availableTimes[3] = <<getTodayDate \o " 10:30", "John Smith">>

-----------------------------------------------------------------------------
(* C12 *)

\* the doctor names a query is asked for; the last one is not registered
QueryDoctorNames == {"John Smith", "Emily Johnson", "Gregory House"}

\* part is all restricted to the pairs with that name, in the order of all
RestrictedTo(all, part, doctorName) ==
    LET kept == {k \in Positions(all) : all[k][2] = doctorName}
    IN  /\ Len(part) = Cardinality(kept)
        /\ \A k \in kept : part[Cardinality({m \in kept : m <= k})] = all[k]

\* the position in Slots of the time of day of a dateTime of that date
SlotIndex(date, dateTime) ==
    CHOOSE i \in Positions(Slots) : dateTime = date \o " " \o Slots[i]

\* C12: in every state, for every date and doctor name,
\* getAvailableTimesForDoctor(date, doctorName) is getAvailableTimes(date)
\* restricted to the pairs with that doctor name, in the same order, which
\* is ascending in time; for a name no registered doctor has the result is
\* the empty sequence (a value, not an error).
C12_ForDoctorIsRestriction ==
    \A date \in QueryDates, doctorName \in QueryDoctorNames :
        LET all == getAvailableTimes(date)
            part == getAvailableTimesForDoctor(date, doctorName)
        IN  /\ RestrictedTo(all, part, doctorName)
            /\ \A k \in Positions(part) :
                   /\ part[k][2] = doctorName
                   /\ \E i \in Positions(Slots) : part[k][1] = date \o " " \o Slots[i]
            /\ \A k \in 1..(Len(part) - 1) :
                   SlotIndex(date, part[k][1]) < SlotIndex(date, part[k + 1][1])
            /\ DoctorsNamed(doctorName) = {} => part = <<>>

\* John Smith's seeded 17:00 of today was cancelled: his 17 free slots of
\* today are returned, 17:00 among them at its place before 17:30, while the
\* unregistered name gets the empty sequence
C12_Witness ==
    /\ last.op = "cancelAppointment"
    /\ last.result = "canceled"
    /\ last.args = <<SeedSlot, "Alice Smith", "John Smith">>
    /\ LET part == getAvailableTimesForDoctor(getTodayDate, "John Smith")
       IN  /\ Len(part) = 17
           /\ part[16] = <<SeedSlot, "John Smith">>
           /\ part[17] = <<getTodayDate \o " 17:30", "John Smith">>
    /\ getAvailableTimesForDoctor(getTodayDate, "Gregory House") = <<>>
    /\ Len(getAvailableTimes(getTodayDate)) > 17

-----------------------------------------------------------------------------
(* C13 *)

\* the doctors with at least one of the 20 slots of the date free
DoctorsWithFreeSlot(date) ==
    {i \in Positions(doctors) : Len(FreeSlotsOf(doctors[i], date)) > 0}

\* C13: in every state and for every date, getAvailableDoctors(date) holds
\* no name twice, holds the names of exactly the doctors with a free slot
\* among the 20 slots of the date, and holds them in the order of the
\* registry's doctor list; a doctor booked on all 20 slots is absent.
C13_AvailableDoctorsExact ==
    \A date \in QueryDates :
        LET availableDoctors == getAvailableDoctors(date)
            free == DoctorsWithFreeSlot(date)
        IN  /\ Cardinality({availableDoctors[k] : k \in Positions(availableDoctors)})
                   = Len(availableDoctors)
            /\ Len(availableDoctors) = Cardinality(free)
            /\ \A i \in free :
                   availableDoctors[Cardinality({m \in free : m <= i})] = doctors[i].name
            /\ \A i \in Positions(doctors) :
                   (\A k \in Positions(Slots) :
                        HasEntryAt(doctors[i], date \o " " \o Slots[k]))
                   => \A k \in Positions(availableDoctors) :
                          availableDoctors[k] # doctors[i].name

\* John Smith is booked on all 20 slots of today: he is not among the
\* available doctors of today, the other seven are, in registry order, and he
\* is the first available doctor of tomorrow
C13_Witness ==
    /\ \A k \in Positions(Slots) : HasEntryAt(doctors[1], getTodayDate \o " " \o Slots[k])
    /\ getAvailableDoctors(getTodayDate) =
           <<"Emily Johnson", "David Brown", "Sarah Lee", "Michael Wilson",
             "Alexandra Garcia", "Matthew Taylor", "Olivia Martinez">>
    /\ getAvailableDoctors(getTomorrowDate)[1] = "John Smith"

-----------------------------------------------------------------------------
(* C14 *)

\* the Patient objects a client asks the cards of: only the name is looked
\* at, so the objects need not be the registry's records
QueryPatients ==
    { Patient("Alice Smith", "23.08.1997"), Patient("Alice Smith", ""),
      Patient("Bob Johnson", "22.06.2000"), Patient("Zed Unknown", "01.01.1990") }

\* part holds the cards of all with that patient name, each once, in the
\* order of all
CardsOfName(all, part, name) ==
    LET kept == {k \in Positions(all) : all[k].patient.name = name}
    IN  /\ Len(part) = Cardinality(kept)
        /\ \A k \in kept : part[Cardinality({m \in kept : m <= k})] = all[k]

\* C14: in every state, getVisitCardsForPatient(p) holds exactly the stored
\* cards whose embedded patient name is p's name, each once, in the order
\* of the stored list, and no card of another name; and every
\* addHospitalVisitCard(d, q, t, diag) puts its card at the end of the
\* result for the patients named as q and leaves the result for every other
\* name as it was, so the order is the order of adding.
C14_CardsForPatient ==
    /\ [] (\A p \in QueryPatients :
               /\ CardsOfName(visitCards, getVisitCardsForPatient(p), p.name)
               /\ \A k \in Positions(getVisitCardsForPatient(p)) :
                      getVisitCardsForPatient(p)[k].patient.name = p.name)
    /\ [][ IsCall("addHospitalVisitCard") =>
           \A p \in QueryPatients :
               IF p.name = last'.args[2].name
               THEN (getVisitCardsForPatient(p))' =
                        Append(getVisitCardsForPatient(p), last'.ret[1])
               ELSE (getVisitCardsForPatient(p))' = getVisitCardsForPatient(p) ]_vars

\* three cards were added, for Alice Smith, for Bob Johnson and for Alice
\* Smith again with another diagnosis: Alice Smith's cards are the first
\* and the third, in that order, and Bob Johnson's is the second
C14_Witness ==
    /\ Len(visitCards) = 3
    /\ visitCards[1].patient.name = "Alice Smith"
    /\ visitCards[2].patient.name = "Bob Johnson"
    /\ visitCards[3].patient.name = "Alice Smith"
    /\ visitCards[1].diagnosis # visitCards[3].diagnosis
    /\ getVisitCardsForPatient(Patient("Alice Smith", "")) = <<visitCards[1], visitCards[3]>>
    /\ getVisitCardsForPatient(Patient("Bob Johnson", "22.06.2000")) = <<visitCards[2]>>

-----------------------------------------------------------------------------
(* C15 *)

\* C15: every addHospitalVisitCard(doctor, patient, dateTime, diagnosis)
\* ends without error and appends exactly one card with these four values
\* at the end of the stored cards, in whatever state it is called (no
\* appointment (dateTime, patient, doctor) need exist); it returns that card
\* and changes no appointment list and no patient or doctor record.
C15_CardAlwaysAppended ==
    [][ IsCall("addHospitalVisitCard") =>
        LET card == [doctor |-> last'.args[1], patient |-> last'.args[2],
                     dateTime |-> last'.args[3], diagnosis |-> last'.args[4]]
        IN  /\ last'.result = "ok"
            /\ last'.ret = <<card>>
            /\ AppendedOne(visitCards, visitCards', card)
            /\ UNCHANGED <<doctors, patients, appointments, heldDoctor, heldPatient>> ]_vars

\* a card was added after the seeding for a triple that matches no
\* appointment (cancelled, or never booked), and it is the last stored card
C15_Witness ==
    /\ seeded > 0
    /\ last.op = "addHospitalVisitCard"
    /\ MatchesNothing(last.args[3], last.args[2].name, last.args[1].name)
    /\ Len(visitCards) > 0
    /\ visitCards[Len(visitCards)] = last.ret[1]

-----------------------------------------------------------------------------
(* C16 *)

\* C16: no step removes, moves or changes a stored visit card: after every
\* step (seeding, scheduleAppointment, cancelAppointment, addPatient,
\* addHospitalVisitCard) the cards stored before are at their positions,
\* equal in every field.
C16_CardsAppendOnly ==
    [][ /\ Len(visitCards') >= Len(visitCards)
        /\ \A k \in Positions(visitCards) : visitCards'[k] = visitCards[k] ]_vars

\* two different cards are stored, the first issued for (today 17:00, Alice
\* Smith, John Smith), and that appointment has just been cancelled
C16_Witness ==
    /\ last.op = "cancelAppointment"
    /\ last.result = "canceled"
    /\ Len(visitCards) >= 2
    /\ visitCards[1] # visitCards[2]
    /\ last.args = <<visitCards[1].dateTime, visitCards[1].patient.name,
                     visitCards[1].doctor.name>>
    /\ MatchesNothing(last.args[1], last.args[2], last.args[3])

-----------------------------------------------------------------------------
(* C17 *)

\* the fixed list of times of day of the seeding, written out
FixedTimes == <<"17:00", "12:30", "08:30", "14:00", "13:30", "09:00", "15:00", "10:00">>

\* the n-th appointment (n = 1..32) of a seeded fresh registry, as a
\* function of the two date strings only
ExpectedTriple(today, tomorrow, n) ==
    LET k == (n - 1) % 16
        base == IF n <= 16 THEN 0 ELSE 4
        from == IF n <= 16 THEN 0 ELSE 7
        date == IF n <= 16 THEN today ELSE tomorrow
    IN  Entry(date \o " " \o FixedTimes[((from - k) % 8) + 1],
              InitialPatients[base + (k % 4) + 1].name,
              InitialDoctors[base + (k \div 4) + 1].name)

ExpectedTriples(today, tomorrow) ==
    [n \in 1..32 |-> ExpectedTriple(today, tomorrow, n)]

\* the registry holds what the seeding of a fresh registry leaves for these
\* two date strings
SeededStateIs(today, tomorrow) ==
    /\ Len(appointments) = 32
    /\ \A n \in 1..32 : TripleOf(appointments[n]) = ExpectedTriple(today, tomorrow, n)
    /\ Len(doctors) = Len(InitialDoctors)
    /\ \A i \in Positions(doctors) :
           /\ doctors[i].name = InitialDoctors[i].name
           /\ doctors[i].appointments =
                  SelectSeq(ExpectedTriples(today, tomorrow),
                            LAMBDA e : e[2][2] = InitialDoctors[i].name)
    /\ Len(patients) = Len(InitialPatients)
    /\ \A j \in Positions(patients) :
           /\ patients[j].name = InitialPatients[j].name
           /\ patients[j].dateOfBirth = InitialPatients[j].dateOfBirth
           /\ patients[j].appointments =
                  SelectSeq(ExpectedTriples(today, tomorrow),
                            LAMBDA e : e[2][1] = InitialPatients[j].name)
    /\ visitCards = <<>>

\* C17: the state a fresh registry is in after generateDefaultAppointments
\* is a function of the "today" and "tomorrow" date strings alone: the
\* global sequence (dateTimes, pairings, order) and every doctor's and
\* patient's list are the ones that function gives, so two fresh registries
\* seeded with the same two strings end in identical states.
C17_SeedDeterminism ==
    (seeded = 1 /\ last.op = "generateDefaultAppointments")
        => SeededStateIs(getTodayDate, getTomorrowDate)

\* a fresh registry was seeded on the last day of a year: the first
\* appointment is dated that day, the 17th the first day of the next year
C17_Witness ==
    /\ seeded = 1
    /\ last.op = "generateDefaultAppointments"
    /\ now = <<2025, 12, 31>>
    /\ appointments[1].dateTime = "2025-12-31 17:00"
    /\ appointments[17].dateTime = "2026-01-01 10:00"
    /\ doctors[5].appointments[1] = Entry("2026-01-01 10:00", "Eva Martinez", "Michael Wilson")

-----------------------------------------------------------------------------
(* C18 *)

\* the dateTimes of a date that the seeding can give
SeedDateTimes(date) == {date \o " " \o FixedTimes[k] : k \in Positions(FixedTimes)}

\* the appointments dated that date, in the order of the global list
DatedAppointments(date) ==
    SelectSeq(appointments, LAMBDA a : a.dateTime \in SeedDateTimes(date))

\* the number of appointments of doctor i with patient j (positions of the
\* fresh registry's lists, from 1) dated that date
PairCount(i, j, date) ==
    Cardinality({n \in Positions(appointments) :
                    /\ appointments[n].doctor.name = InitialDoctors[i].name
                    /\ appointments[n].patient.name = InitialPatients[j].name
                    /\ appointments[n].dateTime \in SeedDateTimes(date)})

\* the k-th appointment created for a date (k from 0) is that of doctor
\* base + k div 4 with patient base + k mod 4 (from 0) at entry
\* (from - k) mod 8 of the fixed list
CreatedInOrder(date, base, from) ==
    LET created == DatedAppointments(date)
    IN  /\ Len(created) = 16
        /\ \A k \in 0..15 :
               /\ created[k + 1].dateTime = date \o " " \o FixedTimes[((from - k) % 8) + 1]
               /\ created[k + 1].doctor.name = InitialDoctors[base + (k \div 4) + 1].name
               /\ created[k + 1].patient.name = InitialPatients[base + (k % 4) + 1].name

\* C18: seeding a fresh registry creates exactly 32 appointments: exactly
\* one for every pair of the first four doctors and first four patients,
\* dated today, exactly one for every pair of the last four doctors and
\* last four patients, dated tomorrow, none for any other pair or date; the
\* k-th appointment created for today has time (0 - k) mod 8 of the fixed
\* list, the k-th created for tomorrow time (7 - k) mod 8.
C18_SeedShape ==
    (seeded = 1 /\ last.op = "generateDefaultAppointments") =>
        /\ Len(appointments) = 32
        /\ \A i, j \in 1..8 :
               /\ PairCount(i, j, getTodayDate) = IF i <= 4 /\ j <= 4 THEN 1 ELSE 0
               /\ PairCount(i, j, getTomorrowDate) = IF i >= 5 /\ j >= 5 THEN 1 ELSE 0
        /\ CreatedInOrder(getTodayDate, 0, 0)
        /\ CreatedInOrder(getTomorrowDate, 4, 7)

\* a fresh registry was seeded on 29 February: the last appointment created
\* for today (k = 15) is Sarah Lee with Diana Davis at 12:30, the last for
\* tomorrow, 1 March, is Olivia Martinez with Henry Jackson at 17:00
C18_Witness ==
    /\ seeded = 1
    /\ last.op = "generateDefaultAppointments"
    /\ now = <<2024, 2, 29>>
    /\ TripleOf(appointments[16]) = Entry("2024-02-29 12:30", "Diana Davis", "Sarah Lee")
    /\ TripleOf(appointments[32]) = Entry("2024-03-01 17:00", "Henry Jackson", "Olivia Martinez")

-----------------------------------------------------------------------------
(* C19 *)

\* the step is a call of a Registry method
IsRegistryCall == nOps' = nOps + 1

\* C19: in the program, generateDefaultAppointments runs exactly once and
\* before every other Registry call: it has not run while Menu::start has
\* not begun, it has run exactly once at every prompt of every menu and
\* after the exit, the one call of it is the first Registry call, and every
\* other Registry call (bookings, cancellations, registrations, visit
\* cards, queries) is made with the seeding done and leaves it done once.
C19_SeededOnceBeforeAll ==
    /\ [] (/\ route = "start" => (seeded = 0 /\ nOps = 0)
           /\ route # "start" => seeded = 1)
    /\ [][ IsRegistryCall =>
           IF last'.op = "generateDefaultAppointments"
           THEN seeded = 0 /\ nOps = 0 /\ route = "start" /\ seeded' = 1
           ELSE seeded = 1 /\ seeded' = 1 ]_vars

\* the user went through the patient menu, back to the main menu and on
\* into the registrator menu, where an appointment was cancelled: the
\* seeding has still run once
C19_Witness ==
    /\ route = "registrator"
    /\ heldPatient # <<>>
    /\ last.op = "cancelAppointment"
    /\ nOps >= 3
    /\ seeded = 1
    /\ Len(appointments) = 31

-----------------------------------------------------------------------------
(* C20 *)

\* C20: in the program, with selections inside the displayed lists, no
\* Registry call ends with NotFound and the program is never terminated by
\* one; every name passed to findPatientByName, findDoctorByName,
\* scheduleAppointment or cancelAppointment is the name of a record in the
\* registry at the call, the Doctor passed to scheduleAppointment is the
\* registry's record, and no step removes or renames a patient or a doctor.
C20_MenuNeverNotFound ==
    /\ [] (last.result # "NotFound" /\ route # "terminated")
    /\ [][ /\ IsCall("scheduleAppointment") =>
                  /\ last'.args[2].kind = "registry"
                  /\ PatientsNamed(last'.args[3].name) # {}
           /\ IsCall("cancelAppointment") =>
                  /\ PatientsNamed(last'.args[2]) # {}
                  /\ DoctorsNamed(last'.args[3]) # {}
           /\ IsCall("findPatientByName") => PatientsNamed(last'.args[1]) # {}
           /\ IsCall("findDoctorByName") => DoctorsNamed(last'.args[1]) # {}
           /\ Len(patients') >= Len(patients)
           /\ \A j \in Positions(patients) : patients'[j].name = patients[j].name
           /\ Len(doctors') = Len(doctors)
           /\ \A i \in Positions(doctors) : doctors'[i].name = doctors[i].name ]_vars

\* a patient registered under a new name booked an appointment in the
\* patient menu and then cancelled it there: both calls found the name
C20_Witness ==
    /\ route = "patient"
    /\ last.op = "cancelAppointment"
    /\ last.result = "canceled"
    /\ last.args[2] = "Nina New"
    /\ heldPatient[1].name = "Nina New"
    /\ Len(patients) = Len(InitialPatients) + 1
    /\ patients[Len(patients)].appointments = <<>>
    /\ Len(appointments) = 32

-----------------------------------------------------------------------------
(* C21 *)

\* new is old with count elements after it
GrownBy(old, new, count) ==
    /\ Len(new) = Len(old) + count
    /\ \A k \in Positions(old) : new[k] = old[k]

\* the appointments this step has put at the end of the global list
NewAppointments == {n \in Positions(appointments') : n > Len(appointments)}

\* C21: every call of generateDefaultAppointments ends without error,
\* whatever the registry holds: with D doctors and P patients it appends one
\* entry to the doctor's list, the patient's list and the global list for
\* every pair of doctors 1..D/2 with patients 1..P/2 (dated today) and of
\* doctors 5..D with patients 5..P (dated tomorrow), also when that doctor
\* already has an entry at that dateTime; nothing stored before is removed.
C21_SeedingNeverChecks ==
    [][ IsCall("generateDefaultAppointments") =>
        LET D == Len(doctors)
            P == Len(patients)
            first(count) == 1..(count \div 2)
            second(count) == 5..count
        IN  /\ last'.result = "ok"
            /\ GrownBy(appointments, appointments',
                       (D \div 2) * (P \div 2) + (D - 4) * (P - 4))
            /\ Len(doctors') = D /\ Len(patients') = P
            /\ \A i \in Positions(doctors) :
                   GrownBy(doctors[i].appointments, doctors'[i].appointments,
                           (IF i \in first(D) THEN P \div 2 ELSE 0)
                           + (IF i \in second(D) THEN P - 4 ELSE 0))
            /\ \A j \in Positions(patients) :
                   GrownBy(patients[j].appointments, patients'[j].appointments,
                           (IF j \in first(P) THEN D \div 2 ELSE 0)
                           + (IF j \in second(P) THEN D - 4 ELSE 0))
            /\ \A i \in first(D), j \in first(P) :
                   \E n \in NewAppointments :
                       /\ appointments'[n].doctor.name = doctors[i].name
                       /\ appointments'[n].patient.name = patients[j].name
                       /\ appointments'[n].dateTime \in SeedDateTimes(getTodayDate)
            /\ \A i \in second(D), j \in second(P) :
                   \E n \in NewAppointments :
                       /\ appointments'[n].doctor.name = doctors[i].name
                       /\ appointments'[n].patient.name = patients[j].name
                       /\ appointments'[n].dateTime \in SeedDateTimes(getTomorrowDate) ]_vars

\* generateDefaultAppointments has run a second time: the global list holds
\* two appointments for (John Smith, today 17:00) and John Smith's own list
\* holds that dateTime twice
C21_Witness ==
    /\ seeded = 2
    /\ last.op = "generateDefaultAppointments"
    /\ Cardinality({n \in Positions(appointments) :
                        /\ appointments[n].doctor.name = "John Smith"
                        /\ appointments[n].dateTime = SeedSlot}) = 2
    /\ Cardinality({k \in Positions(doctors[1].appointments) :
                        doctors[1].appointments[k][1] = SeedSlot}) = 2

-----------------------------------------------------------------------------
(* C22 *)

\* two appointments of the global list have the same doctor name and dateTime
DoubleBooked(doctorName, dateTime) ==
    Cardinality({n \in Positions(appointments) :
                    /\ appointments[n].doctor.name = doctorName
                    /\ appointments[n].dateTime = dateTime}) >= 2

\* the positions of the entries of a record's own list at that dateTime
HasEntryAtPositions(record, dateTime) ==
    {k \in Positions(record.appointments) : record.appointments[k][1] = dateTime}

\* C22: while every call of scheduleAppointment on a registry doctor runs
\* to completion before the next call starts, no two appointments of the
\* global list have the same doctor name and dateTime and no doctor's own
\* list holds a dateTime twice; the appends of a caller run only for a
\* dateTime that was free in the doctor's list when that caller tested it.
\* (With the test and the appends of two callers interleaved the double
\* booking is reached: C22_Witness.)
C22_AtomicBookingNoDouble ==
    /\ [](route.oneAtATime =>
            /\ \A n \in Positions(appointments) :
                   ~DoubleBooked(appointments[n].doctor.name, appointments[n].dateTime)
            /\ \A i \in Positions(doctors) :
                   \A k \in Positions(doctors[i].appointments) :
                       HasEntryAtPositions(doctors[i], doctors[i].appointments[k][1]) = {k}
            /\ \A c \in Callers : route.at[c] = <<>>)
    /\ [][ \A c \in Callers :
              (route.at[c] # <<>> /\ route'.at[c] = <<>>) =>
                  /\ last'.result = "scheduled"
                  /\ Len(appointments') = Len(appointments) + 1 ]_vars

\* two callers were interleaved between the test and the appends: the
\* global list holds two appointments for (John Smith, today 09:30), one per
\* caller's patient, and John Smith's own list holds that dateTime twice
C22_Witness ==
    /\ ~route.oneAtATime
    /\ \A c \in Callers : route.at[c] = <<>>
    /\ last.op = "scheduleAppointment" /\ last.result = "scheduled"
    /\ DoubleBooked("John Smith", getTodayDate \o " 09:30")
    /\ Cardinality(HasEntryAtPositions(doctors[1], getTodayDate \o " 09:30")) = 2
    /\ \E n, m \in Positions(appointments) :
           /\ appointments[n].dateTime = getTodayDate \o " 09:30"
           /\ appointments[m].dateTime = getTodayDate \o " 09:30"
           /\ appointments[n].patient.name = "Alice Smith"
           /\ appointments[m].patient.name = "Bob Johnson"

-----------------------------------------------------------------------------
(* C23 *)

\* C23: the Appointment a successful scheduleAppointment appends embeds the
\* doctor record and the patient record as they are right after the call,
\* the new entry in both embedded lists; every call of scheduleAppointment
\* leaves the Appointments stored before it as they were, embedded lists
\* included, and every Appointment that a call of cancelAppointment leaves
\* in the global list is one stored before it, unchanged, whatever the call
\* did to the live records.
C23_SnapshotSemantics ==
    [][ /\ IsCall("scheduleAppointment") =>
               /\ \A n \in Positions(appointments) : appointments'[n] = appointments[n]
               /\ last'.result = "scheduled" =>
                      \A t \in DateTimes, dref \in AllDoctorRefs :
                          (last'.args[1] = t /\ last'.args[2] = dref) =>
                              /\ Len(appointments') = Len(appointments) + 1
                              /\ appointments'[Len(appointments')].dateTime = t
                              /\ appointments'[Len(appointments')].doctor =
                                     (IF dref.kind = "registry"
                                      THEN doctors[dref.idx] ELSE heldDoctor[1])'
                              /\ \E j \in Positions(patients) :
                                     /\ patients'[j].name = last'.args[3].name
                                     /\ appointments'[Len(appointments')].patient = patients'[j]
                              /\ HasEntryAt(appointments'[Len(appointments')].doctor, t)
                              /\ HasEntryAt(appointments'[Len(appointments')].patient, t)
        /\ IsCall("cancelAppointment") =>
               \A m \in Positions(appointments') :
                   \E n \in Positions(appointments) : appointments'[m] = appointments[n] ]_vars

\* cancelAppointment(today 17:00, Alice Smith, John Smith) has removed the
\* entry from the live record of John Smith, and an Appointment still stored
\* embeds a John Smith whose list holds that entry
C23_Witness ==
    /\ last.op = "cancelAppointment" /\ last.result = "canceled"
    /\ last.args = <<SeedSlot, "Alice Smith", "John Smith">>
    /\ ~HasEntryAt(doctors[1], SeedSlot)
    /\ \E n \in Positions(appointments) :
           /\ appointments[n].doctor.name = doctors[1].name
           /\ HasEntryAt(appointments[n].doctor, SeedSlot)
           /\ appointments[n].doctor.appointments # doctors[1].appointments

-----------------------------------------------------------------------------
(* C24 *)

\* C24: a call getByIndex(index, items) returns if and only if
\* 0 <= index < size of items, and then it returns the element at position
\* index counted from 0 (the element index + 1 of the sequence); for every
\* other index (negative, the size, larger, any index on an empty vector)
\* it ends with OutOfRange; it changes nothing in the registry.
C24_GetByIndex ==
    [][ IsCall("getByIndex") =>
           /\ UNCHANGED <<registry, heldDoctor, heldPatient, seeded>>
           /\ \A index \in Indexes, which \in {"appointments", "patients", "doctors"} :
                  last'.args = <<index, which>> =>
                      /\ last'.result \in {"ok", "OutOfRange"}
                      /\ last'.result = "ok" <=>
                             (0 <= index /\ index < Len(ListOf(which)))
                      /\ last'.result = "ok" =>
                             /\ Len(last'.ret) = 1
                             /\ \A k \in Positions(ListOf(which)) :
                                    k = index + 1 => last'.ret[1] = ListOf(which)[k]
                      /\ last'.result = "OutOfRange" => last'.ret = <<>>
                      /\ ListOf(which) = <<>> => last'.result = "OutOfRange" ]_vars

\* getByIndex was called on the 32 appointments with index 32, the size,
\* and ended with OutOfRange
C24_Witness ==
    /\ last.op = "getByIndex"
    /\ last.args = <<32, "appointments">>
    /\ Len(appointments) = 32
    /\ last.result = "OutOfRange"

-----------------------------------------------------------------------------
(* C25 *)

\* C25: whatever number the user types in a menu that picks an item of a
\* displayed list, no call of getByIndex ends with OutOfRange and no list is
\* subscripted outside its bounds.
C25_ChoicesValidated ==
    /\ last.op = "getByIndex" => last.result = "ok"
    /\ last.result \notin {"OutOfRange", "OutOfBounds"}

-----------------------------------------------------------------------------
(* C26 *)

\* C26: a call scheduleAppointment(t, doc, pat) is refused exactly when the
\* Doctor object passed in has an entry at t in its own list, whatever the
\* registry's record of that name and the global list hold; when it is not
\* refused, exactly that object's list gets the entry (t, pat, doc) appended.
\* When the object is the caller's own (a copy of a registry doctor, or a
\* Doctor built by the caller), no registry doctor changes, and a successful
\* booking adds one appointment to the global list and one entry to the
\* registered patient's list while t is offered by getAvailableTimesForDoctor
\* for that name after the call exactly if it was before.
C26_OnlyThePassedDoctor ==
    [][ IsCall("scheduleAppointment") =>
        \A t \in DateTimes, dref \in AllDoctorRefs, pn \in {"Alice Smith", "Bob Johnson"} :
            (last'.args[1] = t /\ last'.args[2] = dref /\ last'.args[3].name = pn) =>
            LET passed == IF dref.kind = "registry" THEN doctors[dref.idx] ELSE heldDoctor[1]
                entry == Entry(t, pn, passed.name)
            IN  /\ last'.result = "unavailable" <=> HasEntryAt(passed, t)
                /\ last'.result = "unavailable" => UNCHANGED <<doctors, heldDoctor>>
                /\ (last'.result # "unavailable" /\ dref.kind = "registry") =>
                       /\ doctors'[dref.idx].appointments =
                              Append(passed.appointments, entry)
                       /\ \A i \in Positions(doctors) :
                              i # dref.idx => doctors'[i] = doctors[i]
                       /\ UNCHANGED heldDoctor
                /\ dref.kind = "held" =>
                       /\ UNCHANGED doctors
                       /\ last'.result # "unavailable" =>
                              heldDoctor'[1].appointments =
                                  Append(passed.appointments, entry)
                       /\ last'.result = "scheduled" =>
                              /\ \A dn \in DoctorNames :
                                     passed.name = dn =>
                                         (Listed(t, dn) <=> (Listed(t, dn))')
                              /\ Len(appointments') = Len(appointments) + 1
                              /\ TripleOf(appointments'[Len(appointments')]) = entry
                              /\ \A j \in PatientsNamed(pn) :
                                     j = findPatientByName(pn) =>
                                         patients'[j].appointments =
                                             Append(patients[j].appointments, entry) ]_vars

\* a copy of the registry's John Smith was passed for the free slot today
\* 09:30: the booking is in the global list and in the copy's list, the
\* registry's John Smith has no entry at 09:30 and the slot is still offered
C26_Witness ==
    /\ last.op = "scheduleAppointment" /\ last.result = "scheduled"
    /\ last.args[1] = getTodayDate \o " 09:30"
    /\ last.args[2] = [kind |-> "held"]
    /\ heldDoctor[1].name = "John Smith"
    /\ Len(heldDoctor[1].appointments) = 5
    /\ HasEntryAt(heldDoctor[1], getTodayDate \o " 09:30")
    /\ ~HasEntryAt(doctors[1], getTodayDate \o " 09:30")
    /\ Listed(getTodayDate \o " 09:30", "John Smith")
    /\ \E n \in Positions(appointments) :
           /\ appointments[n].doctor.name = "John Smith"
           /\ appointments[n].dateTime = getTodayDate \o " 09:30"

-----------------------------------------------------------------------------
(* C27 *)

\* the dates the generated slots are asked for
SlotDates == {getTodayDate, PastDate}

\* dateTime is the first component of some pair of the sequence
Offers(availableTimes, dateTime) ==
    \E k \in Positions(availableTimes) : availableTimes[k][1] = dateTime

\* C27: scheduleAppointment(t, John Smith, Alice Smith) on the registry's
\* record books whenever John Smith has no entry at t, also when t is after
\* or before the working hours, between two slots (09:15), no dateTime at all,
\* or on a past date.  When t is none of the generated slots, the booking
\* leaves getAvailableTimes(date) as it was for every date, and t is in no
\* result of getAvailableTimes or getAvailableTimesForDoctor, before the
\* booking, after it and after its cancellation.
C27_NoDateTimeValidation ==
    [][ /\ IsCall("scheduleAppointment") =>
               \A t \in UnofferedTimes :
                   last'.args[1] = t =>
                       /\ last'.result = "scheduled" <=> ~HasEntryAt(doctors[1], t)
                       /\ last'.result = "scheduled" =>
                              /\ (HasEntryAt(doctors[1], t))'
                              /\ TripleOf(appointments'[Len(appointments')])
                                     = Entry(t, "Alice Smith", "John Smith")
                       /\ t \in OffSlotTimes =>
                              \A date \in SlotDates :
                                  /\ (getAvailableTimes(date))' = getAvailableTimes(date)
                                  /\ ~Offers(getAvailableTimes(date), t)
                                  /\ ~Offers(getAvailableTimesForDoctor(date, "John Smith"), t)
        /\ IsCall("cancelAppointment") =>
               \A t \in OffSlotTimes :
                   last'.args[1] = t =>
                       \A date \in SlotDates :
                           ~(Offers(getAvailableTimesForDoctor(date, "John Smith"), t))' ]_vars

\* John Smith is booked today at 18:00, after the working hours, and on a
\* past date
C27_Witness ==
    /\ last.op = "scheduleAppointment" /\ last.result = "scheduled"
    /\ HasEntryAt(doctors[1], getTodayDate \o " 18:00")
    /\ HasEntryAt(doctors[1], PastDate \o " 09:30")
    /\ Len(appointments) = 34
    /\ ~Offers(getAvailableTimesForDoctor(PastDate, "John Smith"), PastDate \o " 09:30")

-----------------------------------------------------------------------------
(* C28 *)

\* the dateTimes of a person's own list
DateTimesOf(person) ==
    {person.appointments[k][1] : k \in Positions(person.appointments)}

\* the doctor names of the entries of a person's own list at that dateTime
DoctorsAt(person, dateTime) ==
    {person.appointments[k][2][2] : k \in HasEntryAtPositions(person, dateTime)}

\* the names of the doctors of the same half of the registry as position j
HalfOf(j) ==
    {doctors[i].name : i \in (IF j <= 4 THEN 1..4 ELSE 5..8)}

\* C28: right after the seeding of a fresh registry, every doctor has 4
\* entries on 4 distinct dateTimes; every patient has 4 entries, one with
\* each of the 4 doctors of its half, on exactly 2 distinct dateTimes, each of
\* them with two different doctors; patients[0] is with doctors[0] and with
\* doctors[2] today at 17:00.
C28_SeedDoublesPatients ==
    (seeded = 1 /\ last.op = "generateDefaultAppointments") =>
        /\ \A i \in Positions(doctors) :
               /\ Len(doctors[i].appointments) = 4
               /\ Cardinality(DateTimesOf(doctors[i])) = 4
        /\ \A j \in Positions(patients) :
               /\ Len(patients[j].appointments) = 4
               /\ {patients[j].appointments[k][2][2] :
                       k \in Positions(patients[j].appointments)} = HalfOf(j)
               /\ Cardinality(DateTimesOf(patients[j])) = 2
               /\ \A t \in DateTimesOf(patients[j]) :
                      Cardinality(DoctorsAt(patients[j], t)) = 2
        /\ DoctorsAt(patients[1], getTodayDate \o " 17:00")
               = {doctors[1].name, doctors[3].name}

\* a fresh registry was seeded on 31 December 2024: Alice Smith is with John
\* Smith and with David Brown at 2024-12-31 17:00, and Eva Martinez has two
\* doctors at 2025-01-01 10:00
C28_Witness ==
    /\ seeded = 1
    /\ last.op = "generateDefaultAppointments"
    /\ now = <<2024, 12, 31>>
    /\ DoctorsAt(patients[1], "2024-12-31 17:00") = {"John Smith", "David Brown"}
    /\ Cardinality(DoctorsAt(patients[5], "2025-01-01 10:00")) = 2

====
